---- MODULE Spec2Model ----
(***************************************************************************)
(* StudySync-AI backend: the /ws/adapt streaming subsystem (ws.py), the    *)
(* authentication component (auth.py), the AI-generation routes            *)
(* (routes/study.py), the /plans routes (main.py), the generation chains   *)
(* (simple_chains.py, chains/explain_chain.py, chains/plan_chain.py) and   *)
(* the interaction memory with its recency cache (memory_manager.py), as   *)
(* state machines.                                                         *)
(***************************************************************************)
EXTENDS Integers, Sequences, FiniteSets, TLC

\* ------------------------------------------------------------------ bounds
Clients == {"c1", "c2"}
MaxMsgs == 2
MaxChunks == 2
MaxTimeouts == 1
MaxTime == 2
MaxRows == 3
MaxLen == 3
MaxLines == 2
MaxCount == 2
MaxItems == 5
MaxWeeks == 18
MaxInserts == 2
MaxCalls == 2

None == "None"

VARIABLES
    active_connections, \* ConnectionManager.active_connections (its keys)
    pc,                 \* position of each connection's endpoint coroutine
    sock,               \* client side of each socket: "open" or "gone"
    inbox,              \* inbound text frames waiting in the transport buffer
    sent,               \* frames delivered since the last inbound message was read
    first_frame,        \* type of the first frame delivered on the connection
    cur,                \* the inbound message the connection is handling
    seq,                \* number of inbound messages read on the connection
    accumulated_content,\* _stream_ai_response local
    question_count,     \* _stream_ai_response local
    nchunks,            \* chunks taken from the LLM stream by this generation
    memory,             \* interactions stored through store_user_interaction
    nclient,            \* inbound messages produced by all clients
    workload,           \* the clients that connect and the messages they send
    jwt_secret,         \* SUPABASE_JWT_SECRET in the environment
    now,                \* wall clock, in the unit of the exp claim
    auth_call,          \* the last call into the authentication component
    auth_result,        \* what that call returned or raised
    http,               \* the /study requests being served, one per slot
    supabase,           \* the datastore client of main.py: "configured" or "absent"
    user_id_column,     \* type of study_plans.user_id in the datastore schema
    study_plans,        \* rows of the plan-CRUD table
    plans_call,         \* the last /plans request and the response to it
    chain_call,         \* the last call of a chain and what it returned
    redis_cache,        \* recent:{user}:{chain} of the recency cache, newest first
    chroma_store,       \* the user's interactions of one chain type in the similarity store
    mem_call,           \* the retrieval call that has just returned
    writers             \* the RedisMemoryCache.store_interaction calls in progress

wsvars == <<active_connections, pc, sock, inbox, sent, first_frame, cur, seq,
            accumulated_content, question_count, nchunks, memory, nclient,
            workload>>

authvars == <<jwt_secret, now, auth_call, auth_result>>

plansvars == <<supabase, user_id_column, study_plans, plans_call>>

memvars == <<redis_cache, chroma_store, mem_call, writers>>

vars == <<wsvars, authvars, http, plansvars, chain_call, memvars>>

\* ------------------------------------------------------- inbound messages
\* A raw inbound text frame, described by what the parsing and validation
\* code looks at.
Msg(json_ok, type, has_data, rid, env_user, data_user, fields_ok, qtypes_null) ==
    [json_ok |-> json_ok, type |-> type, has_data |-> has_data,
     request_id |-> rid, env_user |-> env_user, data_user |-> data_user,
     fields_ok |-> fields_ok, qtypes_null |-> qtypes_null]

NoMsg == Msg(FALSE, "none", FALSE, None, "absent", "absent", FALSE, FALSE)

Messages ==
    {   Msg(FALSE, "missing", FALSE, None, "absent", "absent", FALSE, FALSE),     \* not JSON
        Msg(TRUE, "ping", TRUE, "r1", "absent", "absent", FALSE, FALSE),
        Msg(TRUE, "ping", FALSE, "r1", "absent", "absent", FALSE, FALSE),         \* ping without "data"
        Msg(TRUE, "other", TRUE, "r1", "absent", "absent", FALSE, FALSE),
        Msg(TRUE, "quiz_request", TRUE, "r1", "absent", "valid", TRUE, FALSE),
        Msg(TRUE, "quiz_request", TRUE, None, "valid", "absent", TRUE, FALSE),    \* user_id from the envelope
        Msg(TRUE, "quiz_request", TRUE, "r1", "absent", "valid", TRUE, TRUE),     \* question_types: null
        Msg(TRUE, "quiz_request", TRUE, "r1", "absent", "absent", TRUE, FALSE),   \* no user_id anywhere
        Msg(TRUE, "quiz_request", TRUE, "r1", "invalid", "absent", TRUE, FALSE),  \* user_id not a UUID
        Msg(TRUE, "quiz_request", TRUE, "r1", "absent", "valid", FALSE, FALSE) }  \* topic/difficulty missing

\* WebSocketMessage.model_validate(json.loads(message)): type and data are
\* required fields.
WebSocketMessage_valid(m) == m.json_ok /\ m.type # "missing" /\ m.has_data

\* _handle_quiz_request: user_id of the payload, else of the envelope.
quiz_user(m) == IF m.data_user # "absent" THEN m.data_user ELSE m.env_user

\* QuizInput(**quiz_data) is constructed without raising.
QuizInput_valid(m) == quiz_user(m) = "valid" /\ m.fields_ok

WellFormedQuiz(m) ==
    WebSocketMessage_valid(m) /\ m.type = "quiz_request" /\ QuizInput_valid(m)

\* ---------------------------------------------------------------- frames
Frame(type, rid, status, piece, acc) ==
    [type |-> type, request_id |-> rid, status |-> status,
     content_piece |-> piece, accumulated_content |-> acc]

StatusFrame(rid, status) == Frame("status", rid, status, "", <<>>)
ErrorFrame(rid) == Frame("error", rid, "", "", <<>>)

\* request_id = ws_message.request_id or str(uuid4())
generation_request_id(m) == IF m.request_id # None THEN m.request_id ELSE "uuid4"

\* websocket.send_text: the frame is delivered while the client is there;
\* otherwise the call raises, which the _send_* wrappers swallow.
deliver(c, log, f) == IF sock[c] = "open" THEN Append(log, f) ELSE log

send_text(c, f) ==
    /\ sent' = [sent EXCEPT ![c] = deliver(c, @, f)]
    /\ first_frame' = [first_frame EXCEPT
                          ![c] = IF @ = None /\ sock[c] = "open" THEN f.type ELSE @]

\* ------------------------------------------------------------- workloads
\* the messages that start no generation and pass the envelope validation
LightMessages == {m \in Messages : m.type \in {"ping", "other"} /\ m.has_data}

\* One connection receiving every kind of message, or every client connected
\* and receiving the messages that are answered with a single frame.
Workloads ==
    {   [clients |-> {"c1"}, messages |-> Messages],
        [clients |-> Clients, messages |-> LightMessages] }

\* ------------------------------------------------------------------ Init
WSInit ==
    /\ active_connections = {}
    /\ pc = [c \in Clients |-> "new"]
    /\ sock = [c \in Clients |-> "open"]
    /\ inbox = [c \in Clients |-> <<>>]
    /\ sent = [c \in Clients |-> <<>>]
    /\ first_frame = [c \in Clients |-> None]
    /\ cur = [c \in Clients |-> NoMsg]
    /\ seq = [c \in Clients |-> 0]
    /\ accumulated_content = [c \in Clients |-> <<>>]
    /\ question_count = [c \in Clients |-> 0]
    /\ nchunks = [c \in Clients |-> 0]
    /\ memory = {}
    /\ nclient = 0
    /\ workload \in Workloads

\* What a call into the authentication component returns or raises
Result(kind, status, detail, www, id) ==
    [kind |-> kind, status |-> status, detail |-> detail, www_authenticate |-> www,
     id |-> id]

NoId == 0

NoResult == Result("none", 0, "", None, NoId)

AuthCall(op, token, a, b, at) ==
    [op |-> op, token |-> token, user_id |-> a, resource_user_id |-> b, at |-> at]

Tok(form, signed, sub, exp, claims) ==
    [form |-> form, signed |-> signed, sub |-> sub, exp |-> exp, claims |-> claims]

NoExp == -1

NoToken == Tok("n/a", "other", "absent", NoExp, "ok")

\* requests in flight at the same time
Slots == {"p", "q"}

\* A /study request, the response to it and its background task
Exchange(phase, route, authorization, body_user_id, chain, status, chain_user_id,
         response_user_id, task_user_id, task_input_user_id, row_user_id,
         scheduler) ==
    [phase |-> phase, route |-> route, authorization |-> authorization,
     body_user_id |-> body_user_id, chain |-> chain, status |-> status,
     chain_user_id |-> chain_user_id, response_user_id |-> response_user_id,
     task_user_id |-> task_user_id, task_input_user_id |-> task_input_user_id,
     row_user_id |-> row_user_id, scheduler |-> scheduler]

NoExchange == Exchange("idle", "", NoToken, "", "", 0, NoId, "", NoId, NoId, "", "")

StudyIdle == http = [s \in Slots |-> NoExchange]

\* the subsystem takes no part in the run
WSIdle ==
    /\ active_connections = {}
    /\ pc = [c \in Clients |-> "new"]
    /\ sock = [c \in Clients |-> "open"]
    /\ inbox = [c \in Clients |-> <<>>]
    /\ sent = [c \in Clients |-> <<>>]
    /\ first_frame = [c \in Clients |-> None]
    /\ cur = [c \in Clients |-> NoMsg]
    /\ seq = [c \in Clients |-> 0]
    /\ accumulated_content = [c \in Clients |-> <<>>]
    /\ question_count = [c \in Clients |-> 0]
    /\ nchunks = [c \in Clients |-> 0]
    /\ memory = {}
    /\ nclient = 0
    /\ workload = [clients |-> {}, messages |-> {}]

AuthIdle ==
    /\ jwt_secret = "configured"
    /\ now = 0
    /\ auth_call = AuthCall("none", NoToken, NoId, NoId, 0)
    /\ auth_result = NoResult

\* A /plans request and the response to it
PlansCall(op, user, db, status, detail, rows) ==
    [op |-> op, user |-> user, db |-> db, status |-> status, detail |-> detail,
     rows |-> rows]

PlansIdle ==
    /\ supabase = "absent"
    /\ user_id_column = "text"
    /\ study_plans = {}
    /\ plans_call = PlansCall("none", NoId, "", 0, "", {})

\* no chain has been called
NoChainCall == [chain |-> "none"]

ChainsIdle == chain_call = NoChainCall

\* A get_context_for_chain call: its max_context_items, whether the two
\* retrievals worked, and the context items returned
MemCall(max_context_items, redis, chroma, result) ==
    [max_context_items |-> max_context_items, redis |-> redis, chroma |-> chroma,
     result |-> result]

NoMemCall == MemCall(0, "none", "none", <<>>)

\* the processes that write to the recency cache
Writers == {"w1", "w2"}

\* A store_interaction call of the recency cache: the command it is about
\* to send, its record key, the command that raised in its last call, the
\* calls it has made, whether a call of another writer ever ran during one of
\* its calls, and how many of its pushes its own trim has not yet followed
Writer(pc_, key, failed, calls, overlapped, untrimmed) ==
    [pc |-> pc_, key |-> key, failed |-> failed, calls |-> calls,
     overlapped |-> overlapped, untrimmed |-> untrimmed]

NoWriters == [w \in Writers |-> Writer("idle", 0, "", 0, FALSE, 0)]

MemoryIdle ==
    /\ redis_cache = <<>>
    /\ chroma_store = {}
    /\ mem_call = NoMemCall
    /\ writers = NoWriters

Init == WSInit /\ AuthIdle /\ StudyIdle /\ PlansIdle /\ ChainsIdle /\ MemoryIdle

\* -------------------------------------------------------- client actions
ClientSend(c, m) ==
    /\ c \in workload.clients
    /\ m \in workload.messages
    /\ sock[c] = "open"
    /\ pc[c] \notin {"new", "closed"}
    /\ nclient < MaxMsgs
    /\ inbox' = [inbox EXCEPT ![c] = Append(@, m)]
    /\ nclient' = nclient + 1
    /\ UNCHANGED <<active_connections, pc, sock, sent, first_frame, cur, seq,
                   accumulated_content, question_count, nchunks, memory, workload>>

ClientDisconnect(c) ==
    /\ c \in workload.clients
    /\ sock[c] = "open"
    /\ sock' = [sock EXCEPT ![c] = "gone"]
    /\ UNCHANGED <<active_connections, pc, inbox, sent, first_frame, cur, seq,
                   accumulated_content, question_count, nchunks, memory, nclient,
                   workload>>

\* ------------------------------------------------------ server: lifecycle
disconnect_keep(c) == active_connections' = active_connections

\* ConnectionManager.disconnect
disconnect(c) == active_connections' = active_connections \ {c}

\* the endpoint's finally block, reached from wherever the coroutine was
Cleanup(c) ==
    /\ disconnect(c)
    /\ pc' = [pc EXCEPT ![c] = "closed"]

\* ConnectionManager.connect: accept, then register
connect(c) ==
    /\ c \in workload.clients
    /\ pc[c] = "new"
    /\ IF sock[c] = "open"
       THEN /\ active_connections' = active_connections \cup {c}
            /\ pc' = [pc EXCEPT ![c] = "welcome"]
       ELSE Cleanup(c)
    /\ UNCHANGED <<sock, inbox, sent, first_frame, cur, seq, accumulated_content,
                   question_count, nchunks, memory, nclient, workload>>

\* the welcome frame; a failed send leaves through the outer handlers
Welcome(c) ==
    /\ pc[c] = "welcome"
    /\ send_text(c, Frame("connected", None, "", "", <<>>))
    /\ IF sock[c] = "open"
       THEN /\ pc' = [pc EXCEPT ![c] = "recv"]
            /\ UNCHANGED active_connections
       ELSE Cleanup(c)
    /\ UNCHANGED <<sock, inbox, cur, seq, accumulated_content, question_count,
                   nchunks, memory, nclient, workload>>

\* the coroutine sits in receive_text and nothing else of it is running
AwaitingReceive_concurrent(c) == pc[c] \notin {"new", "welcome", "closed"}

AwaitingReceive(c) == pc[c] = "recv"

\* ----------------------------------------------- server: message handling
\* ConnectionManager._handle_ping
_handle_ping(m) == Frame("pong", m.request_id, "", "", <<>>)

\* ConnectionManager._handle_quiz_request, the paths that raise before the
\* generation starts (ValueError "user_id is required", ValidationError)
_handle_quiz_request_error(m) == ErrorFrame(m.request_id)

handle_message_noecho(m) ==
    IF ~WebSocketMessage_valid(m) THEN ErrorFrame(None)
    ELSE IF m.type = "quiz_request" THEN _handle_quiz_request_error(m)
    ELSE IF m.type = "ping" THEN _handle_ping(m)
    ELSE ErrorFrame(None)

\* ConnectionManager.handle_message for a message that starts no generation
handle_message(m) ==
    IF ~WebSocketMessage_valid(m) THEN ErrorFrame(None)
    ELSE IF m.type = "quiz_request" THEN _handle_quiz_request_error(m)
    ELSE IF m.type = "ping" THEN _handle_ping(m)
    ELSE ErrorFrame(m.request_id)

\* locals of a generation disappear when the handler returns
EndGeneration(c) ==
    /\ pc' = [pc EXCEPT ![c] = "recv"]
    /\ accumulated_content' = [accumulated_content EXCEPT ![c] = <<>>]
    /\ question_count' = [question_count EXCEPT ![c] = 0]
    /\ nchunks' = [nchunks EXCEPT ![c] = 0]

\* websocket.receive_text returns the next inbound message and the loop
\* hands it to handle_message, up to the first frame it sends
Receive(c) ==
    /\ AwaitingReceive(c)
    /\ inbox[c] # <<>>
    /\ LET m == Head(inbox[c])
           f == IF WellFormedQuiz(m)
                THEN StatusFrame(generation_request_id(m), "initializing")
                ELSE handle_message(m)
       IN /\ inbox' = [inbox EXCEPT ![c] = Tail(@)]
          /\ cur' = [cur EXCEPT ![c] = m]
          /\ seq' = [seq EXCEPT ![c] = @ + 1]
          /\ sent' = [sent EXCEPT ![c] = deliver(c, <<>>, f)]
          /\ first_frame' = [first_frame EXCEPT
                                ![c] = IF @ = None /\ sock[c] = "open" THEN f.type ELSE @]
          /\ pc' = [pc EXCEPT ![c] = IF WellFormedQuiz(m) THEN "g_ctx" ELSE "recv"]
    /\ UNCHANGED <<active_connections, sock, accumulated_content, question_count,
                   nchunks, memory, nclient, workload>>

\* websocket.receive_text raises WebSocketDisconnect: break, then finally
ReceiveDisconnect(c) ==
    /\ AwaitingReceive(c)
    /\ inbox[c] = <<>>
    /\ sock[c] = "gone"
    /\ Cleanup(c)
    /\ UNCHANGED <<sock, inbox, sent, first_frame, cur, seq, accumulated_content,
                   question_count, nchunks, memory, nclient, workload>>

IsPing(f) == f.type = "ping"

Timeout_closing(c) ==
    /\ AwaitingReceive(c)
    /\ inbox[c] = <<>>
    /\ sock[c] = "open"
    /\ Len(SelectSeq(sent[c], IsPing)) < MaxTimeouts
    /\ send_text(c, Frame("ping", None, "", "", <<>>))
    /\ Cleanup(c)
    /\ UNCHANGED <<sock, inbox, cur, seq, accumulated_content, question_count,
                   nchunks, memory, nclient, workload>>

\* asyncio.TimeoutError after 300 s without an inbound message: a ping frame
Timeout(c) ==
    /\ AwaitingReceive(c)
    /\ inbox[c] = <<>>
    /\ sock[c] = "open"
    /\ Len(SelectSeq(sent[c], IsPing)) < MaxTimeouts
    /\ send_text(c, Frame("ping", None, "", "", <<>>))
    /\ UNCHANGED <<active_connections, pc, sock, inbox, cur, seq,
                   accumulated_content, question_count, nchunks, memory, nclient,
                   workload>>

\* the endpoint's task is cancelled at an await (server shutdown):
\* CancelledError passes every "except Exception" and runs the finally block
ServerCancel(c) ==
    /\ pc[c] \notin {"new", "closed"}
    /\ Cleanup(c)
    /\ UNCHANGED <<sock, inbox, sent, first_frame, cur, seq, accumulated_content,
                   question_count, nchunks, memory, nclient, workload>>

\* ------------------------------------- server: streaming quiz generation
Pieces == {"a", "?"}

\* generate_streaming_quiz: context retrieval and its status frame
GenContext(c) ==
    /\ pc[c] = "g_ctx"
    /\ \E ok \in BOOLEAN :
          send_text(c, StatusFrame(generation_request_id(cur[c]),
                                   IF ok THEN "context_loaded" ELSE "context_warning"))
    /\ pc' = [pc EXCEPT ![c] = "g_prompt"]
    /\ UNCHANGED <<active_connections, sock, inbox, cur, seq, accumulated_content,
                   question_count, nchunks, memory, nclient, workload>>

\* generate_streaming_quiz: _create_quiz_prompt joins question_types and
\* raises when it is null; the outer handler then sends the error frame
GenPrompt(c) ==
    /\ pc[c] = "g_prompt"
    /\ IF cur[c].qtypes_null
       THEN /\ send_text(c, ErrorFrame(generation_request_id(cur[c])))
            /\ EndGeneration(c)
       ELSE /\ send_text(c, StatusFrame(generation_request_id(cur[c]), "prompt_ready"))
            /\ pc' = [pc EXCEPT ![c] = "g_llm"]
            /\ UNCHANGED <<accumulated_content, question_count, nchunks>>
    /\ UNCHANGED <<active_connections, sock, inbox, cur, seq, memory, nclient,
                   workload>>

GenCallLLM_quiet(c) ==
    /\ pc[c] = "g_llm"
    /\ \E ok \in BOOLEAN :
          IF ok
          THEN /\ pc' = [pc EXCEPT ![c] = "g_stream"]
               /\ UNCHANGED <<sent, first_frame, accumulated_content, question_count,
                              nchunks>>
          ELSE /\ send_text(c, ErrorFrame(generation_request_id(cur[c])))
               /\ EndGeneration(c)
    /\ UNCHANGED <<active_connections, sock, inbox, cur, seq, memory, nclient,
                   workload>>

\* _stream_ai_response: the completions.create call, then status generating
GenCallLLM(c) ==
    /\ pc[c] = "g_llm"
    /\ \E ok \in BOOLEAN :
          IF ok
          THEN /\ send_text(c, StatusFrame(generation_request_id(cur[c]), "generating"))
               /\ pc' = [pc EXCEPT ![c] = "g_stream"]
               /\ UNCHANGED <<accumulated_content, question_count, nchunks>>
          ELSE /\ send_text(c, ErrorFrame(generation_request_id(cur[c])))
               /\ EndGeneration(c)
    /\ UNCHANGED <<active_connections, sock, inbox, cur, seq, memory, nclient,
                   workload>>

GenChunk_overwriting(c) ==
    /\ pc[c] = "g_stream"
    /\ nchunks[c] < MaxChunks
    /\ \E p \in Pieces :
          LET acc == <<p>>
          IN /\ accumulated_content' = [accumulated_content EXCEPT ![c] = acc]
             /\ send_text(c, Frame("content_update", generation_request_id(cur[c]),
                                   "", p, acc))
             /\ pc' = [pc EXCEPT ![c] = IF p = "?" THEN "g_question" ELSE "g_stream"]
    /\ nchunks' = [nchunks EXCEPT ![c] = @ + 1]
    /\ UNCHANGED <<active_connections, sock, inbox, cur, seq, question_count,
                   memory, nclient, workload>>

\* _stream_ai_response: the next chunk whose delta has content (chunks
\* without content are skipped and leave no trace)
GenChunk(c) ==
    /\ pc[c] = "g_stream"
    /\ nchunks[c] < MaxChunks
    /\ \E p \in Pieces :
          LET acc == Append(accumulated_content[c], p)
          IN /\ accumulated_content' = [accumulated_content EXCEPT ![c] = acc]
             /\ send_text(c, Frame("content_update", generation_request_id(cur[c]),
                                   "", p, acc))
             /\ pc' = [pc EXCEPT ![c] = IF p = "?" THEN "g_question" ELSE "g_stream"]
    /\ nchunks' = [nchunks EXCEPT ![c] = @ + 1]
    /\ UNCHANGED <<active_connections, sock, inbox, cur, seq, question_count,
                   memory, nclient, workload>>

\* _stream_ai_response: "?" in content_piece
GenQuestionCompleted(c) ==
    /\ pc[c] = "g_question"
    /\ question_count' = [question_count EXCEPT ![c] = @ + 1]
    /\ send_text(c, StatusFrame(generation_request_id(cur[c]), "question_completed"))
    /\ pc' = [pc EXCEPT ![c] = "g_stream"]
    /\ UNCHANGED <<active_connections, sock, inbox, cur, seq, accumulated_content,
                   nchunks, memory, nclient, workload>>

GenStreamError_fallthrough(c) ==
    /\ pc[c] = "g_stream"
    /\ sent' = [sent EXCEPT ![c] =
                  deliver(c, deliver(c, @, ErrorFrame(generation_request_id(cur[c]))),
                          Frame("quiz_complete", generation_request_id(cur[c]), "", "",
                                accumulated_content[c]))]
    /\ EndGeneration(c)
    /\ UNCHANGED <<active_connections, sock, inbox, first_frame, cur, seq, memory,
                   nclient, workload>>

\* _stream_ai_response: iterating the response raises
GenStreamError(c) ==
    /\ pc[c] = "g_stream"
    /\ send_text(c, ErrorFrame(generation_request_id(cur[c])))
    /\ EndGeneration(c)
    /\ UNCHANGED <<active_connections, sock, inbox, cur, seq, memory, nclient,
                   workload>>

\* _stream_ai_response: the stream ends; parse, store, final result
GenComplete(c) ==
    /\ pc[c] = "g_stream"
    /\ \E stored \in BOOLEAN :
          memory' = IF stored
                    THEN memory \cup {[client |-> c, seq |-> seq[c],
                                       live |-> sock[c] = "open"]}
                    ELSE memory
    /\ send_text(c, Frame("quiz_complete", generation_request_id(cur[c]), "", "",
                          accumulated_content[c]))
    /\ EndGeneration(c)
    /\ UNCHANGED <<active_connections, sock, inbox, cur, seq, nclient, workload>>

\* ------------------------------------------------------------------ Next
WSNext ==
    \E c \in Clients :
        \/ \E m \in Messages : ClientSend(c, m)
        \/ ClientDisconnect(c)
        \/ connect(c)
        \/ Welcome(c)
        \/ Receive(c)
        \/ ReceiveDisconnect(c)
        \/ Timeout(c)
        \/ ServerCancel(c)
        \/ GenContext(c)
        \/ GenPrompt(c)
        \/ GenCallLLM(c)
        \/ GenChunk(c)
        \/ GenQuestionCompleted(c)
        \/ GenStreamError(c)
        \/ GenComplete(c)

Next == WSNext /\ UNCHANGED <<authvars, http, plansvars, chain_call, memvars>>

Spec == Init /\ [][Next]_vars

\* ========================================================== authentication
\* UUID values are numbered; their text forms are strings
Uuids == {1, 2}

ValueError == -1

\* uuid.UUID(text): hexadecimal digits are accepted in either case
UUID(text) ==
    IF text \in {"a1", "A1"} THEN 1
    ELSE IF text = "b2" THEN 2
    ELSE ValueError

\* str(uuid): the canonical lower-case form
str(uuid) == IF uuid = 1 THEN "a1" ELSE IF uuid = 2 THEN "b2" ELSE "?"

\* the sub claim: absent, empty, a UUID in text form, or some other string
SubClaims == {"absent", "", "a1", "A1", "b2", "not-a-uuid"}

\* What a request presents as bearer credentials, described by what
\* HTTPBearer, jwt.decode and UserPayload look at: its form (a JWT, some other
\* string, the empty string, or no Authorization header at all), the key that
\* signed it, its sub and exp claims, and whether its optional claims (email,
\* role, iat, aud, *_metadata) have the declared types.
JwtTokens ==
    {Tok("jwt", k, sub, exp, cl) :
        k \in {"secret", "other"}, sub \in SubClaims,
        exp \in {NoExp} \cup (0..MaxTime), cl \in {"ok", "ill-typed"}}

GarbageToken == Tok("garbage", "other", "absent", NoExp, "ok")

Tokens == JwtTokens \cup {GarbageToken}

EmptyToken == Tok("empty", "other", "absent", NoExp, "ok")

NoCredentials == Tok("none", "other", "absent", NoExp, "ok")

HTTPException(status, detail, www) == Result("HTTPException", status, detail, www, NoId)

Unauthorized(detail) == HTTPException(401, detail, "Bearer")

User(id) == Result("User", 200, "", None, id)

\* get_supabase_secret
get_supabase_secret(env) ==
    IF env = "absent"
    THEN HTTPException(500, "SUPABASE_JWT_SECRET not configured", None)
    ELSE Result("secret", 200, "", None, NoId)

\* jwt.decode(token, secret, algorithms=["HS256"], options={verify_signature,
\* verify_exp, require: [sub, exp]}): the signature first, then the required
\* claims, then the expiry (exp <= now is expired)
jwt_decode_noexp(tok, t) ==
    IF tok.form # "jwt" THEN "DecodeError"
    ELSE IF tok.signed # "secret" THEN "InvalidSignatureError"
    ELSE IF tok.sub = "absent" \/ tok.exp = NoExp THEN "MissingRequiredClaimError"
    ELSE "payload"

jwt_decode(tok, t) ==
    IF tok.form # "jwt" THEN "DecodeError"
    ELSE IF tok.signed # "secret" THEN "InvalidSignatureError"
    ELSE IF tok.sub = "absent" \/ tok.exp = NoExp THEN "MissingRequiredClaimError"
    ELSE IF tok.exp <= t THEN "ExpiredSignatureError"
    ELSE "payload"

Payload(sub) == Result("UserPayload", 200, sub, None, NoId)

\* verify_token: every exception that is not a jwt error, the HTTPException
\* of get_supabase_secret and the one for an empty sub included, is caught by
\* the last handler and raised again as 401 "Authentication failed"
verify_token(tok, env, t) ==
    IF get_supabase_secret(env).kind = "HTTPException"
    THEN Unauthorized("Authentication failed")
    ELSE LET decoded == jwt_decode(tok, t)
         IN IF decoded = "ExpiredSignatureError"
            THEN Unauthorized("Token has expired. Please login again.")
            ELSE IF decoded # "payload"
            THEN Unauthorized("Invalid authentication token")
            ELSE IF tok.sub = ""
            THEN Unauthorized("Authentication failed")
            ELSE IF tok.claims # "ok"
            THEN Unauthorized("Authentication failed")
            ELSE Payload(tok.sub)

\* get_current_user(credentials)
get_current_user(token, env, t) ==
    IF token = EmptyToken THEN Unauthorized("Authorization token required")
    ELSE LET user_payload == verify_token(token, env, t)
         IN IF user_payload.kind = "HTTPException" THEN user_payload
            ELSE IF UUID(user_payload.detail) = ValueError
            THEN Unauthorized("Invalid user identifier format")
            ELSE User(UUID(user_payload.detail))

\* security = HTTPBearer(): a request without bearer credentials is refused
\* with 403 before get_current_user runs (test_routes.py asserts the 403)
HTTPBearer(authorization) ==
    IF authorization.form \in {"none", "empty"}
    THEN HTTPException(403, "Not authenticated", None)
    ELSE Result("credentials", 200, "", None, NoId)

\* Depends(get_current_user) as a protected route resolves it
authenticate(authorization, env, t) ==
    IF HTTPBearer(authorization).kind = "HTTPException"
    THEN HTTPBearer(authorization)
    ELSE get_current_user(authorization, env, t)

validate_user_access_inverted(user_id, resource_user_id) ==
    IF user_id = resource_user_id
    THEN HTTPException(403, "Access denied: You can only access your own resources", None)
    ELSE Result("None", 200, "", None, NoId)

\* validate_user_access
validate_user_access(user_id, resource_user_id) ==
    IF user_id # resource_user_id
    THEN HTTPException(403, "Access denied: You can only access your own resources", None)
    ELSE Result("None", 200, "", None, NoId)

AuthInit ==
    /\ jwt_secret \in {"configured", "absent"}
    /\ now \in 0..MaxTime
    /\ auth_call = AuthCall("none", NoToken, NoId, NoId, 0)
    /\ auth_result = NoResult
    /\ WSIdle
    /\ StudyIdle
    /\ PlansIdle
    /\ ChainsIdle
    /\ MemoryIdle

\* a request to a protected route reaches its authentication dependency
ProtectedRequest ==
    \E authorization \in Tokens \cup {NoCredentials, EmptyToken} :
        /\ auth_call' = AuthCall("authenticate", authorization, NoId, NoId, now)
        /\ auth_result' = authenticate(authorization, jwt_secret, now)
        /\ UNCHANGED <<jwt_secret, now>>

\* get_current_user called with credentials in hand
CallGetCurrentUser ==
    \E token \in Tokens \cup {EmptyToken} :
        /\ auth_call' = AuthCall("get_current_user", token, NoId, NoId, now)
        /\ auth_result' = get_current_user(token, jwt_secret, now)
        /\ UNCHANGED <<jwt_secret, now>>

CallValidateUserAccess ==
    \E a, b \in {"a1", "A1", "b2"} :
        /\ auth_call' = AuthCall("validate_user_access", NoToken, UUID(a), UUID(b), now)
        /\ auth_result' = validate_user_access(UUID(a), UUID(b))
        /\ UNCHANGED <<jwt_secret, now>>

Tick ==
    /\ now < MaxTime
    /\ now' = now + 1
    /\ UNCHANGED <<jwt_secret, auth_call, auth_result>>

AuthNext ==
    /\ \/ ProtectedRequest
       \/ CallGetCurrentUser
       \/ CallValidateUserAccess
       \/ Tick
    /\ UNCHANGED <<wsvars, http, plansvars, chain_call, memvars>>

SpecAuth == AuthInit /\ [][AuthNext]_vars

\* ========================================================== /study routes
Routes == {"plans", "questions", "explain"}

\* what the Authorization header of a /study request carries
StudyCredentials ==
    {   Tok("jwt", "secret", "a1", MaxTime, "ok"),
        Tok("jwt", "secret", "A1", MaxTime, "ok"),
        Tok("jwt", "secret", "b2", MaxTime, "ok"),
        Tok("jwt", "secret", "a1", 0, "ok"),
        NoCredentials }

\* the user_id of the request body, as text; the field is required and a UUID
BodyUserIds == {"a1", "A1", "b2", "not-a-uuid", "absent"}

\* StudyPlanInput / QuizInput / ExplainInput validation of the body
body_valid(body_user_id) == body_user_id # "absent" /\ UUID(body_user_id) # ValueError

overwrite_user_id_trusting(body_user_id, current_user) == UUID(body_user_id)

\* plan_data.user_id = current_user.id (and the same in the other two routes)
overwrite_user_id(body_user_id, current_user) == current_user.id

\* generate_study_plan / generate_quiz_questions / explain_concept behind
\* their dependencies: authentication, body validation, the chain call, the
\* response and the background task it schedules
study_route(route, authorization, body_user_id, chain, env, t) ==
    LET current_user == authenticate(authorization, env, t)
    IN IF current_user.kind = "HTTPException"
       THEN Exchange("responded", route, authorization, body_user_id, chain,
                     current_user.status, NoId, "", NoId, NoId, "", "")
       ELSE IF ~body_valid(body_user_id)
       THEN Exchange("responded", route, authorization, body_user_id, chain,
                     422, NoId, "", NoId, NoId, "", "")
       ELSE LET user_id == overwrite_user_id(body_user_id, current_user)
            IN IF chain = "raises"
               THEN Exchange("responded", route, authorization, body_user_id, chain,
                             500, user_id, "", NoId, NoId, "", "")
               ELSE Exchange("scheduled", route, authorization, body_user_id, chain,
                             200, user_id, str(current_user.id), current_user.id,
                             user_id, "", "")

StudyInit ==
    /\ jwt_secret = "configured"
    /\ now = 1
    /\ auth_call = AuthCall("none", NoToken, NoId, NoId, 0)
    /\ auth_result = NoResult
    /\ StudyIdle
    /\ WSIdle
    /\ PlansIdle
    /\ ChainsIdle
    /\ MemoryIdle

StudyRequest(s) ==
    /\ http[s].phase = "idle"
    /\ \E route \in Routes, authorization \in StudyCredentials,
          body_user_id \in BodyUserIds, chain \in {"returns", "raises"} :
          http' = [http EXCEPT ![s] = study_route(route, authorization, body_user_id,
                                                  chain, jwt_secret, now)]

_save_interaction_unguarded(db) == IF db = "raises" THEN "raised" ELSE "returned"

\* what the scheduler sees of the task: the body is one try block whose
\* "except Exception" logs, so the coroutine returns whatever the service did
_save_interaction(db) == IF db = "raises" THEN "returned" ELSE "returned"

\* _save_study_plan_interaction / _save_question_history_interaction /
\* _save_explanation_interaction: the row is written with str(user_id), or the
\* service returns no record id, or it raises; the task catches and logs
BackgroundTask(s) ==
    /\ http[s].phase = "scheduled"
    /\ \E db \in {"saved", "no record", "raises"} :
          http' = [http EXCEPT ![s].phase = "task " \o db,
                               ![s].row_user_id =
                                   IF db = "saved" THEN str(http[s].task_user_id) ELSE "",
                               ![s].scheduler = _save_interaction(db)]

\* the exchange is over
Forget(s) ==
    /\ http[s].phase \notin {"idle", "scheduled"}
    /\ http' = [http EXCEPT ![s] = NoExchange]

StudyNext ==
    /\ \E s \in Slots :
        \/ StudyRequest(s)
        \/ BackgroundTask(s)
        \/ Forget(s)
    /\ UNCHANGED <<wsvars, authvars, plansvars, chain_call, memvars>>

SpecStudy == StudyInit /\ [][StudyNext]_vars

\* ============================================================ /plans CRUD
\* str(model) of a pydantic model: the field list, not the id
str_User(user) == "id=UUID('" \o str(user.id) \o "') email=None name=None created_at=None"

\* A row of study_plans; created_by records the authenticated user whose
\* POST /plans inserted it (NoId for a row that was there before)
Row(id, user_id, created_by) == [id |-> id, user_id |-> user_id, created_by |-> created_by]

\* rows that other writers left in the table
ExistingRows == {Row(1, "a1", NoId), Row(2, "b2", NoId)}

next_id(table) == Cardinality(table) + 1 + Cardinality(ExistingRows \ table)

\* what the datastore does with a statement apart from its content: it
\* executes it, fails (network, permissions), or answers with no data
DbOutcomes == {"ok", "raises", "no data"}

\* a uuid column refuses text that is not a UUID and keeps the canonical form
column_accepts(column, text) == column = "text" \/ UUID(text) # ValueError

column_value(column, text) == IF column = "uuid" THEN str(UUID(text)) ELSE text

InternalError(detail) == HTTPException(500, detail, None)

\* create_study_plan: current_user_id is what Depends(get_current_user)
\* returned, the User; every exception raised in the try block, the 503
\* included, is caught by the handler's except clause and raised as 500
create_study_plan(current_user_id, client, column, table, db) ==
    LET user_id == str_User(current_user_id)
        row == Row(next_id(table), column_value(column, user_id), current_user_id.id)
    IN  IF client = "absent"
        THEN [response |-> InternalError("Failed to create study plan: 503: Database not configured"),
              rows |-> {}, table |-> table]
        ELSE IF db = "raises" \/ ~column_accepts(column, user_id)
        THEN [response |-> InternalError("Failed to create study plan: APIError"),
              rows |-> {}, table |-> table]
        ELSE IF db = "no data"
        THEN [response |-> InternalError("Failed to create study plan: 500: Failed to create study plan"),
              rows |-> {}, table |-> table]
        ELSE IF UUID(row.user_id) = ValueError
        THEN [response |-> InternalError("Failed to create study plan: badly formed hexadecimal UUID string"),
              rows |-> {}, table |-> table \cup {row}]
        ELSE [response |-> Result("StudyPlanResponse", 200, "Study plan created successfully", None, UUID(row.user_id)),
              rows |-> {row}, table |-> table \cup {row}]

\* get_user_study_plans: select * where user_id = str(current_user_id)
get_user_study_plans(current_user_id, client, column, table, db) ==
    LET user_id == str_User(current_user_id)
        data == {r \in table : r.user_id = column_value(column, user_id)}
    IN  IF client = "absent"
        THEN [response |-> InternalError("Failed to retrieve study plans: 503: Database not configured"),
              rows |-> {}]
        ELSE IF db = "raises" \/ ~column_accepts(column, user_id)
        THEN [response |-> InternalError("Failed to retrieve study plans: APIError"), rows |-> {}]
        ELSE IF \E r \in data : UUID(r.user_id) = ValueError
        THEN [response |-> InternalError("Failed to retrieve study plans: badly formed hexadecimal UUID string"),
              rows |-> {}]
        ELSE [response |-> Result("List[StudyPlan]", 200, "", None, NoId), rows |-> data]

PlansInit ==
    /\ supabase \in {"configured", "absent"}
    /\ user_id_column \in {"text", "uuid"}
    /\ study_plans \in SUBSET ExistingRows
    /\ plans_call = PlansCall("none", NoId, "", 0, "", {})
    /\ WSIdle
    /\ AuthIdle
    /\ StudyIdle
    /\ ChainsIdle
    /\ MemoryIdle

\* POST /plans by an authenticated user
PostPlans ==
    \E id \in Uuids, db \in DbOutcomes :
        LET out == create_study_plan(User(id), supabase, user_id_column, study_plans, db)
        IN  /\ Cardinality(study_plans) < MaxRows
            /\ study_plans' = out.table
            /\ plans_call' = PlansCall("POST", id, db, out.response.status,
                                       out.response.detail, out.rows)
            /\ UNCHANGED <<supabase, user_id_column>>

\* GET /plans by an authenticated user
GetPlans ==
    \E id \in Uuids, db \in {"ok", "raises"} :
        LET out == get_user_study_plans(User(id), supabase, user_id_column, study_plans, db)
        IN  /\ plans_call' = PlansCall("GET", id, db, out.response.status,
                                       out.response.detail, out.rows)
            /\ UNCHANGED <<supabase, user_id_column, study_plans>>

\* the interaction log of the generation routes writes to the same table
\* name, with user_id = str(user_id)
OtherWriter ==
    \E r \in ExistingRows :
        /\ supabase = "configured"
        /\ r \notin study_plans
        /\ study_plans' = study_plans \cup {r}
        /\ UNCHANGED <<supabase, user_id_column, plans_call>>

PlansNext ==
    /\ \/ PostPlans
       \/ GetPlans
       \/ OtherWriter
    /\ UNCHANGED <<wsvars, authvars, http, chain_call, memvars>>

SpecPlans == PlansInit /\ [][PlansNext]_vars

\* ====================================================== simplified chains
\* ------------------------------------------------------------ LLM text
\* The text of an LLM response is a sequence of lines. The lines come from a
\* small alphabet; the tables below give what the parsing code looks at.
Min(a, b) == IF a < b THEN a ELSE b

Max(a, b) == IF a > b THEN a ELSE b

\* json.dumps of a question object and of a list of k of them, on one line
JsonQuestion(i) == "{\"id\": " \o ToString(i) \o "}"

RECURSIVE JsonItems(_)
JsonItems(k) ==
    IF k = 0 THEN ""
    ELSE IF k = 1 THEN JsonQuestion(1)
    ELSE JsonItems(k - 1) \o ", " \o JsonQuestion(k)

JsonArray(k) == "[" \o JsonItems(k) \o "]"

JsonPlan == "{\"title\": \"t1\", \"description\": \"d1\", \"sections\": [\"s1\"]}"

JsonPlanNoDescription == "{\"title\": \"t1\"}"

\* text that opens like JSON and does not parse
BadArray == "[{\"id\": 1}, What comes next?"

BadObject == "{\"title\": Question"

QuestionLines == {"Question 1: What is Python?", "How to define variables?"}

Unindented ==
    {"", "Some other text", JsonPlan, JsonPlanNoDescription, BadArray, BadObject}
        \cup QuestionLines \cup {JsonArray(k) : k \in 0..MaxLen}

Indent(line) == "  " \o line

Indented == {Indent(""), Indent("Question 1: What is Python?"), Indent(JsonPlan)}

Lines == Unindented \cup Indented

\* str.strip() of one line
strip(line) == IF line \in Unindented THEN line ELSE CHOOSE x \in Unindented : Indent(x) = line

\* '?' in line, 'Question' in line
has_qmark(line) == strip(line) \in QuestionLines \cup {BadArray}

has_Question(line) == strip(line) \in {"Question 1: What is Python?", BadObject}

\* the first character of a stripped line
first_char(line) ==
    IF strip(line) \in {JsonArray(k) : k \in 0..MaxLen} \cup {BadArray} THEN "["
    ELSE IF strip(line) \in {JsonPlan, JsonPlanNoDescription, BadObject} THEN "{"
    ELSE IF strip(line) = "" THEN ""
    ELSE "other"

Texts == UNION {[1..n -> Lines] : n \in 1..MaxLines}

nonblank(text) == SelectSeq(text, LAMBDA l : strip(l) # "")

\* text.strip().startswith(c)
startswith(text, c) == Len(nonblank(text)) > 0 /\ first_char(nonblank(text)[1]) = c

\* A question record, by the fields the callers look at
Question(id, question, type, correct_answer) ==
    [id |-> id, question |-> question, type |-> type, correct_answer |-> correct_answer]

\* json.loads(text): one document, white space around it allowed
json_loads(text) ==
    LET docs == nonblank(text)
        doc == strip(docs[1])
    IN  IF Len(docs) # 1 THEN [kind |-> "JSONDecodeError"]
        ELSE IF \E k \in 0..MaxLen : doc = JsonArray(k)
        THEN [kind |-> "list",
              items |-> [i \in 1..(CHOOSE k \in 0..MaxLen : doc = JsonArray(k)) |->
                            Question(i, JsonQuestion(i), "multiple_choice", "A")]]
        ELSE IF doc = JsonPlan
        THEN [kind |-> "dict", keys |-> {"title", "description", "sections"}]
        ELSE IF doc = JsonPlanNoDescription
        THEN [kind |-> "dict", keys |-> {"title"}]
        ELSE [kind |-> "JSONDecodeError"]

\* seq[:n] of Python, n of either sign
slice(list, n) ==
    IF n >= 0 THEN SubSeq(list, 1, Min(n, Len(list)))
    ELSE SubSeq(list, 1, Max(Len(list) + n, 0))

\* (count is quiz_input.question_count)
\* the heuristic text parse of _parse_questions' except branch
text_questions(text, count) ==
    LET question_lines == SelectSeq(text, LAMBDA l :
                              strip(l) # "" /\ (has_qmark(l) \/ has_Question(l)))
        taken == slice(question_lines, count)
    IN  [i \in 1..Len(taken) |-> Question(i, strip(taken[i]), "short_answer", "See explanation")]

\* QuizChain._parse_questions without the final truncation
_parse_questions_untruncated(text, count) ==
    LET parsed == json_loads(text)
    IN  IF startswith(text, "[") \/ startswith(text, "{")
        THEN IF parsed.kind = "list" THEN parsed.items
             ELSE IF parsed.kind = "dict"
             THEN <<Question(0, strip(nonblank(text)[1]), "object", "")>>
             ELSE text_questions(text, count)
        ELSE <<>>

\* QuizChain._parse_questions: the text parse runs only in the except clause,
\* that is when the text opens with [ or { and json.loads raises
_parse_questions(text, count) ==
    LET parsed == json_loads(text)
        questions ==
            IF startswith(text, "[") \/ startswith(text, "{")
            THEN IF parsed.kind = "list" THEN parsed.items
                 ELSE IF parsed.kind = "dict"
                 THEN <<Question(0, strip(nonblank(text)[1]), "object", "")>>
                 ELSE text_questions(text, count)
            ELSE <<>>
    IN  slice(questions, count)

\* ------------------------------------------------------------ the chains
\* What a chain call returned: kind is "result" for the normal return,
\* "fallback" for the payload of the except clause, "raised" when the
\* exception named in error left the call. Formatted strings are sequences of
\* their fragments, so description and explanation are sequences of strings;
\* lists is key_points + examples + related_concepts + further_reading.
ChainResult(kind, fields, title, description, sections, questions, explanation,
            error, llm_called, context_items) ==
    [kind |-> kind, fields |-> fields, title |-> title, description |-> description,
     sections |-> sections, questions |-> questions, explanation |-> explanation,
     lists |-> <<>>, error |-> error, llm_called |-> llm_called,
     context_items |-> context_items]

Raised(error) == ChainResult("raised", {}, "", <<>>, <<>>, <<>>, <<>>, error, FALSE, 0)

\* What the memory component does during one call: MEMORY_AVAILABLE, the
\* outcome of get_context_for_ai_chain ("raises", "empty", "items") and of
\* store_user_interaction ("stored", "raises")
Memory(available, context, store) ==
    [available |-> available, context |-> context, store |-> store]

MemoryDisabled == Memory(FALSE, "empty", "stored")

MemoryCases ==
    {MemoryDisabled} \cup
    {Memory(TRUE, c, st) : c \in {"raises", "empty", "items"}, st \in {"stored", "raises"}}

\* What the LLM client does: it is None, its call raises, or it returns text
Llm(outcome, text) == [outcome |-> outcome, text |-> text]

LlmCases == {Llm("absent", <<>>), Llm("raises", <<>>)} \cup {Llm("text", t) : t \in Texts}

NoError == ""

\* the context retrieval of a chain without its own try/except
retrieve_context_unguarded(mem) ==
    IF ~mem.available THEN [error |-> NoError, items |-> 0]
    ELSE IF mem.context = "raises" THEN [error |-> "Memory service down", items |-> 0]
    ELSE [error |-> NoError, items |-> IF mem.context = "items" THEN 1 ELSE 0]

\* context = [] ; if MEMORY_AVAILABLE: try: context = get_context_for_ai_chain(..)
\* except Exception: warning
retrieve_context(mem) ==
    IF ~mem.available \/ mem.context = "raises" THEN [error |-> NoError, items |-> 0]
    ELSE [error |-> NoError, items |-> IF mem.context = "items" THEN 1 ELSE 0]

\* if MEMORY_AVAILABLE: try: store_user_interaction(..) except Exception: warning
store_interaction_guarded(mem) == [error |-> NoError]

\* cerebras_client.chat.completions.create(..) and .choices[0].message.content
create_completion(llm) ==
    IF llm.outcome = "absent"
    THEN [error |-> "'NoneType' object has no attribute 'chat'", text |-> <<>>]
    ELSE IF llm.outcome = "raises" THEN [error |-> "Network error", text |-> <<>>]
    ELSE [error |-> NoError, text |-> llm.text]

\* ---- PlanChain
PlanInputs == {[has_input |-> FALSE, subject |-> ""], [has_input |-> TRUE, subject |-> "Python"]}

PlanFallback(error, llm_called, items) ==
    ChainResult("fallback", {"title", "description", "sections", "metadata"},
                "Study Plan Generation Failed",
                <<"Unable to generate study plan: ", error>>, <<>>, <<>>, <<>>,
                error, llm_called, items)

\* the parse step of PlanChain with the text always wrapped
parse_plan_verbatim(plan_text, input) ==
    [fields |-> {"title", "description", "sections", "total_duration", "difficulty_level"},
     title |-> input.subject \o " Study Plan", description |-> plan_text,
     sections |-> <<>>]

\* the parse step of PlanChain.__call__: json.loads when the stripped text
\* starts with {, the text wrapped otherwise and on JSONDecodeError
parse_plan(plan_text, input) ==
    IF startswith(plan_text, "{") /\ json_loads(plan_text).kind = "dict"
    THEN LET keys == json_loads(plan_text).keys
         IN  [fields |-> keys,
              title |-> IF "title" \in keys THEN "t1" ELSE "",
              description |-> IF "description" \in keys THEN <<"d1">> ELSE <<>>,
              sections |-> IF "sections" \in keys THEN <<"s1">> ELSE <<>>]
    ELSE [fields |-> {"title", "description", "sections", "total_duration", "difficulty_level"},
          title |-> input.subject \o " Study Plan", description |-> plan_text,
          sections |-> <<>>]

PlanChain(input, mem, llm) ==
    IF ~input.has_input THEN PlanFallback("'study_plan_input'", FALSE, 0)
    ELSE LET context == retrieve_context(mem)
             response == create_completion(llm)
             plan_data == parse_plan(response.text, input)
         IN  IF context.error # NoError THEN PlanFallback(context.error, FALSE, 0)
             ELSE IF response.error # NoError
             THEN PlanFallback(response.error, llm.outcome # "absent", context.items)
             ELSE IF store_interaction_guarded(mem).error # NoError
             THEN PlanFallback(store_interaction_guarded(mem).error, TRUE, context.items)
             ELSE ChainResult("result", plan_data.fields \cup {"metadata"}, plan_data.title,
                              plan_data.description, plan_data.sections, <<>>, <<>>,
                              NoError, TRUE, context.items)

\* ---- QuizChain
QuizInputs ==
    {[has_input |-> FALSE, count |-> 0, question_types |-> "list"]} \cup
    {[has_input |-> TRUE, count |-> n, question_types |-> qt] :
        n \in (-1)..MaxCount, qt \in {"list", "null"}}

\* the except clause of QuizChain.__call__ returning no question
QuizFallback_empty(error, llm_called, items) ==
    ChainResult("fallback", {"questions", "metadata"}, "", <<>>, <<>>,
                <<>>, <<>>, error, llm_called, items)

\* the except clause of QuizChain.__call__
QuizFallback(error, llm_called, items) ==
    ChainResult("fallback", {"questions", "metadata"}, "", <<>>, <<>>,
                <<Question(1, "Quiz generation failed: " \o error, "multiple_choice",
                           "Please try again")>>,
                <<>>, error, llm_called, items)

\* _create_quiz_prompt: ', '.join(input_data.question_types)
_create_quiz_prompt(input) ==
    IF input.question_types = "null" THEN [error |-> "can only join an iterable"]
    ELSE [error |-> NoError]

QuizChain(input, mem, llm) ==
    IF ~input.has_input THEN QuizFallback("'quiz_input'", FALSE, 0)
    ELSE LET context == retrieve_context(mem)
             response == create_completion(llm)
         IN  IF context.error # NoError THEN QuizFallback(context.error, FALSE, 0)
             ELSE IF _create_quiz_prompt(input).error # NoError
             THEN QuizFallback(_create_quiz_prompt(input).error, FALSE, context.items)
             ELSE IF response.error # NoError
             THEN QuizFallback(response.error, llm.outcome # "absent", context.items)
             ELSE IF store_interaction_guarded(mem).error # NoError
             THEN QuizFallback(store_interaction_guarded(mem).error, TRUE, context.items)
             ELSE ChainResult("result", {"questions", "metadata"}, "", <<>>, <<>>,
                              _parse_questions(response.text, input.count), <<>>,
                              NoError, TRUE, context.items)

\* ---- ExplainChain
Concepts == {"recursion", "entropy"}

ExplainInputs ==
    {[has_input |-> FALSE, concept |-> ""]} \cup
    {[has_input |-> TRUE, concept |-> c] : c \in Concepts}

ExplainFields ==
    {"explanation", "key_points", "examples", "related_concepts", "further_reading",
     "metadata"}

\* an except clause that does not name the concept
ExplainFallback_anonymous(input, error, llm_called, items) ==
    ChainResult("fallback", ExplainFields, "", <<>>, <<>>, <<>>,
                <<"Unable", " to generate explanation: ", error>>,
                error, llm_called, items)

\* the except clause of ExplainChain.__call__: it reads explain_input, which
\* is unbound when inputs["explain_input"] was what raised
ExplainFallback(input, error, llm_called, items) ==
    IF ~input.has_input
    THEN Raised("cannot access local variable 'explain_input'")
    ELSE ChainResult("fallback", ExplainFields, "", <<>>, <<>>, <<>>,
                     <<"Unable", " to generate explanation for '", input.concept, "': ", error>>,
                     error, llm_called, items)

ExplainChain(input, mem, llm) ==
    IF ~input.has_input THEN ExplainFallback(input, "'explain_input'", FALSE, 0)
    ELSE LET context == retrieve_context(mem)
             response == create_completion(llm)
         IN  IF context.error # NoError THEN ExplainFallback(input, context.error, FALSE, 0)
             ELSE IF response.error # NoError
             THEN ExplainFallback(input, response.error, llm.outcome # "absent", context.items)
             ELSE IF store_interaction_guarded(mem).error # NoError
             THEN ExplainFallback(input, store_interaction_guarded(mem).error, TRUE, context.items)
             ELSE ChainResult("result", ExplainFields, "", <<>>, <<>>, <<>>,
                              response.text, NoError, TRUE, context.items)

\* ---- the templated ExplainChain (chains/explain_chain.py)
\* text.strip(): leading and trailing white space, blank lines included
strip_text(text) ==
    LET idx == {i \in DOMAIN text : strip(text[i]) # ""}
        lo == CHOOSE i \in idx : \A j \in idx : i <= j
        hi == CHOOSE i \in idx : \A j \in idx : i >= j
    IN  IF idx = {} THEN <<>>
        ELSE [i \in 1..(hi - lo + 1) |->
                 IF i = 1 THEN strip(text[lo]) ELSE text[lo + i - 1]]

\* ExplanationOutputParser.parse (none of the JSON documents of the alphabet
\* has an "explanation" member or one of the list members)
ExplanationOutputParser_parse(text) ==
    IF startswith(text, "{") /\ json_loads(text).kind = "dict" THEN text
    ELSE strip_text(text)

\* ExplainChain._call: inputs["explain_input"] is read before the try
ExplainChain_call(input, llm) ==
    IF ~input.has_input THEN Raised("'explain_input'")
    ELSE LET response == create_completion(llm)
         IN  IF response.error # NoError
             THEN ChainResult("fallback", ExplainFields, "", <<>>, <<>>, <<>>,
                      <<"I apologize, but I'm ", "unable",
                        " to generate a detailed explanation for '", input.concept,
                        "' at this moment. Please try again later or contact support if the issue persists.">>,
                      response.error, llm.outcome # "absent", 0)
             ELSE ChainResult("result", ExplainFields, "", <<>>, <<>>, <<>>,
                              ExplanationOutputParser_parse(response.text),
                              NoError, TRUE, 0)

\* ---- calls
ChainCall(chain, input, mem, llm, result) ==
    [chain |-> chain, input |-> input, mem |-> mem, llm |-> llm, result |-> result]

Pending == ChainResult("pending", {}, "", <<>>, <<>>, <<>>, <<>>, "", FALSE, 0)

\* the calls about to be made, one per behaviour
PendingCalls ==
    {ChainCall("plan", input, mem, llm, Pending) :
        input \in PlanInputs, mem \in MemoryCases, llm \in LlmCases} \cup
    {ChainCall("quiz", input, mem, llm, Pending) :
        input \in QuizInputs, mem \in MemoryCases, llm \in LlmCases} \cup
    {ChainCall("explain", input, mem, llm, Pending) :
        input \in ExplainInputs, mem \in MemoryCases, llm \in LlmCases} \cup
    {ChainCall("templated explain", input, MemoryDisabled, llm, Pending) :
        input \in ExplainInputs, llm \in LlmCases}

ChainsInit ==
    /\ chain_call \in PendingCalls
    /\ WSIdle
    /\ AuthIdle
    /\ StudyIdle
    /\ PlansIdle
    /\ MemoryIdle

Return(result) == chain_call' = [chain_call EXCEPT !.result = result]

CallPlanChain ==
    /\ chain_call.chain = "plan" /\ chain_call.result = Pending
    /\ Return(PlanChain(chain_call.input, chain_call.mem, chain_call.llm))

CallQuizChain ==
    /\ chain_call.chain = "quiz" /\ chain_call.result = Pending
    /\ Return(QuizChain(chain_call.input, chain_call.mem, chain_call.llm))

CallExplainChain ==
    /\ chain_call.chain = "explain" /\ chain_call.result = Pending
    /\ Return(ExplainChain(chain_call.input, chain_call.mem, chain_call.llm))

CallTemplatedExplainChain ==
    /\ chain_call.chain = "templated explain" /\ chain_call.result = Pending
    /\ Return(ExplainChain_call(chain_call.input, chain_call.llm))

ChainsNext ==
    /\ \/ CallPlanChain
       \/ CallQuizChain
       \/ CallExplainChain
       \/ CallTemplatedExplainChain
    /\ UNCHANGED <<wsvars, authvars, http, plansvars, memvars>>

SpecChains == ChainsInit /\ [][ChainsNext]_vars

\* ================================================== templated PlanChain
\* exam_date as the caller gives it: None, the empty string, text that is
\* no %Y-%m-%d date, or a date, numbered in days from today
ExamDates ==
    {[form |-> f, day |-> 0] : f \in {"None", "empty", "malformed"}} \cup
    {[form |-> "date", day |-> d] : d \in (0 - 7 * MaxWeeks)..(7 * MaxWeeks)}

\* datetime.strptime(exam_date, "%Y-%m-%d"): midnight of the day, or ValueError
strptime(exam_date) ==
    IF exam_date.form = "date" THEN [error |-> NoError, halfdays |-> 2 * exam_date.day]
    ELSE [error |-> "ValueError", halfdays |-> 0]

\* (target_date - current_date).days: timedelta.days is the floor of the
\* difference; datetime.now() is today at midnight (0) or past noon (1)
days_between(target, current) == (target - current) \div 2

_calculate_study_duration_uncapped(exam_date, current_date) ==
    IF exam_date.form \in {"None", "empty"} THEN 8
    ELSE LET target_date == strptime(exam_date)
         IN  IF target_date.error # NoError THEN 8
             ELSE Max(1, days_between(target_date.halfdays, current_date) \div 7)

\* PlanChain._calculate_study_duration
_calculate_study_duration(exam_date, current_date) ==
    IF exam_date.form \in {"None", "empty"} THEN 8
    ELSE LET target_date == strptime(exam_date)
         IN  IF target_date.error # NoError THEN 8
             ELSE LET days_available == days_between(target_date.halfdays, current_date)
                      weeks_available == Max(1, days_available \div 7)
                  IN  Min(weeks_available, 16)

\* The text of an LLM answer to the plan prompt: whether it is wrapped in a
\* ```json ... ``` fence, and what json.loads makes of its body
PlanTexts ==
    {[fenced |-> f, body |-> b] :
        f \in BOOLEAN, b \in {"plan", "partial plan", "array", "not json"}}

\* the keys of the object the body parses to
plan_keys(body) ==
    IF body = "plan" THEN {"title", "duration_weeks", "daily_schedule", "learning_objectives"}
    ELSE {"title"}

\* A plan object: its keys and the values the claims look at
Plan(fields, title, error, raw_response, duration_weeks, prompt_version) ==
    [kind |-> "plan", fields |-> fields, title |-> title, error |-> error,
     raw_response |-> raw_response, duration_weeks |-> duration_weeks,
     prompt_version |-> prompt_version]

PlanRaised(error) == [kind |-> "raised", error |-> error]

NoText == [fenced |-> FALSE, body |-> ""]

\* the attributes a StudyPlanOutputParser instance has
StudyPlanOutputParser_attributes == {"parse", "_type"}

\* StudyPlanOutputParser.parse: the fence is stripped, json.loads; the
\* JSONDecodeError clause formats self.subject into the fallback title
StudyPlanOutputParser_parse(text) ==
    IF text.body = "array" THEN [kind |-> "list"]
    ELSE IF text.body # "not json"
    THEN Plan(plan_keys(text.body), "t1", NoError, NoText,
              IF text.body = "plan" THEN 6 ELSE 0, "")
    ELSE IF "subject" \in StudyPlanOutputParser_attributes
    THEN Plan({"title", "error", "raw_response", "duration_weeks", "daily_schedule",
               "learning_objectives"},
              "Study Plan for subject", "Failed to parse AI response",
              [text EXCEPT !.fenced = FALSE], 4, "")
    ELSE PlanRaised("'StudyPlanOutputParser' object has no attribute 'subject'")

\* the except clause of PlanChain._call
fallback_plan(error) ==
    Plan({"title", "error", "status", "duration_weeks", "daily_schedule",
          "learning_objectives", "created_at"},
         "Study Plan for Unknown Subject", error, NoText, 4, "")

TemplatedLlmCases ==
    {Llm("absent", NoText), Llm("raises", NoText)} \cup {Llm("text", t) : t \in PlanTexts}

\* PlanChain._call of chains/plan_chain.py
PlanChain_call(input, llm) ==
    IF ~input.has_input THEN fallback_plan("'plan_input'")
    ELSE IF llm.outcome = "absent"
    THEN fallback_plan("Cerebras client not initialized. Check API key configuration.")
    ELSE IF llm.outcome = "raises" THEN fallback_plan("Network error")
    ELSE LET study_plan == StudyPlanOutputParser_parse(llm.text)
         IN  IF study_plan.kind = "raised" THEN fallback_plan(study_plan.error)
             ELSE IF study_plan.kind = "list"
             THEN fallback_plan("list indices must be integers or slices, not str")
             ELSE [study_plan EXCEPT !.fields = @ \cup {"generation_metadata"},
                                     !.prompt_version = "1.0"]

NotReturned == [kind |-> "pending"]

TemplatedCalls ==
    {[chain |-> "_calculate_study_duration", exam_date |-> e, current_date |-> t,
      result |-> NotReturned] : e \in ExamDates, t \in {0, 1}} \cup
    {[chain |-> "templated plan", input |-> i, llm |-> l, result |-> NotReturned] :
        i \in PlanInputs, l \in TemplatedLlmCases}

TemplatedInit ==
    /\ chain_call \in TemplatedCalls
    /\ WSIdle
    /\ AuthIdle
    /\ StudyIdle
    /\ PlansIdle
    /\ MemoryIdle

CallCalculateStudyDuration ==
    /\ chain_call.chain = "_calculate_study_duration" /\ chain_call.result = NotReturned
    /\ chain_call' = [chain_call EXCEPT !.result =
                         [kind |-> "returned",
                          weeks |-> _calculate_study_duration(chain_call.exam_date,
                                                              chain_call.current_date)]]

CallTemplatedPlanChain ==
    /\ chain_call.chain = "templated plan" /\ chain_call.result = NotReturned
    /\ chain_call' = [chain_call EXCEPT !.result =
                         PlanChain_call(chain_call.input, chain_call.llm)]

TemplatedNext ==
    /\ \/ CallCalculateStudyDuration
       \/ CallTemplatedPlanChain
    /\ UNCHANGED <<wsvars, authvars, http, plansvars, memvars>>

SpecTemplated == TemplatedInit /\ [][TemplatedNext]_vars

\* ====================================================== memory manager
\* Interaction records are numbered in the order they are stored; the number
\* stands for the record and its timestamp.
MaxContextItems == 3

\* _format_interactions_for_context: the reduced summary of a record
context_item(record) ==
    [timestamp |-> record, chain_type |-> "quiz",
     input_summary |-> "Quiz on Python (easy difficulty)",
     output_summary |-> "Generated 1 questions"]

\* the sequences of k different elements of S
Rankings(S, k) == {q \in [1..k -> S] : \A i, j \in 1..k : i # j => q[i] # q[j]}

\* RedisMemoryCache.get_recent_interactions: lrange 0..max_results-1, newest
\* first; [] when the cache raises
get_recent_interactions(cache, max_results, redis) ==
    IF redis = "raises" THEN <<>> ELSE SubSeq(cache, 1, Min(max_results, Len(cache)))

\* the loop that appends the similar items not yet in the context
RECURSIVE add_similar(_, _, _)
add_similar(context_items, similar_context, max_context_items) ==
    IF similar_context = <<>> THEN context_items
    ELSE IF \E i \in DOMAIN context_items : context_items[i] = Head(similar_context)
    THEN add_similar(context_items, Tail(similar_context), max_context_items)
    ELSE IF Len(context_items) + 1 >= max_context_items
    THEN Append(context_items, Head(similar_context))
    ELSE add_similar(Append(context_items, Head(similar_context)),
                     Tail(similar_context), max_context_items)

\* MemoryManager.get_context_for_chain; similar is what the similarity store
\* returns for n_results = max_context_items - len(context_items)
get_context_for_chain(cache, similar, max_context_items, redis) ==
    LET recent == get_recent_interactions(cache, max_context_items, redis)
        context_items == [i \in 1..Len(recent) |-> context_item(recent[i])]
        similar_context == [i \in 1..Len(similar) |-> context_item(similar[i])]
        all == IF Len(context_items) < max_context_items
               THEN add_similar(context_items, similar_context, max_context_items)
               ELSE context_items
    IN  slice(all, max_context_items)

\* what the two stores do with a call: both work, or one of them raises
StoreOutcomes ==
    {[redis |-> "ok", chroma |-> "ok"], [redis |-> "raises", chroma |-> "ok"],
     [redis |-> "ok", chroma |-> "raises"]}

\* the newest record kept in either store, 0 when both are empty
newest ==
    LET kept == {redis_cache[i] : i \in DOMAIN redis_cache} \cup chroma_store
    IN  IF kept = {} THEN 0 ELSE CHOOSE r \in kept : \A q \in kept : q <= r

MemoryInit ==
    /\ redis_cache = <<>>
    /\ chroma_store = {}
    /\ mem_call = NoMemCall
    /\ writers = NoWriters
    /\ WSIdle
    /\ AuthIdle
    /\ StudyIdle
    /\ PlansIdle
    /\ ChainsIdle

\* MemoryManager.store_interaction: the record goes to the recency cache and
\* to the similarity store; a store that raises is skipped
store_interaction ==
    \E outcome \in StoreOutcomes :
        LET record == newest + 1
        IN  /\ record <= MaxItems
            /\ redis_cache' = IF outcome.redis = "ok" THEN <<record>> \o redis_cache
                              ELSE redis_cache
            /\ chroma_store' = IF outcome.chroma = "ok" THEN chroma_store \cup {record}
                               ELSE chroma_store
            /\ mem_call' = NoMemCall
            /\ UNCHANGED writers

\* the 24 hour TTL of the recency cache drops its oldest record
Expire ==
    /\ redis_cache # <<>>
    /\ redis_cache' = SubSeq(redis_cache, 1, Len(redis_cache) - 1)
    /\ mem_call' = NoMemCall
    /\ UNCHANGED <<chroma_store, writers>>

\* get_context_for_chain: the similarity store answers the query with its
\* n_results most similar records, in an order the embedding decides
GetContext ==
    \E max_context_items \in 1..MaxContextItems, outcome \in StoreOutcomes :
        LET have == Len(get_recent_interactions(redis_cache, max_context_items,
                                                outcome.redis))
            n_results == Min(max_context_items - have, Cardinality(chroma_store))
        IN  \E similar \in (IF outcome.chroma = "ok"
                            THEN Rankings(chroma_store, n_results) ELSE {<<>>}) :
                /\ mem_call' = MemCall(max_context_items, outcome.redis, outcome.chroma,
                                   get_context_for_chain(redis_cache, similar,
                                                         max_context_items,
                                                         outcome.redis))
                /\ UNCHANGED <<redis_cache, chroma_store, writers>>

MemoryNext ==
    /\ \/ store_interaction
       \/ Expire
       \/ GetContext
    /\ UNCHANGED <<wsvars, authvars, http, plansvars, chain_call>>

SpecMemory == MemoryInit /\ [][MemoryNext]_vars

\* ------------------------------------------ InteractionRecord lifecycle
\* The simplified chains called one after the other while the memory manager
\* keeps what they store.

\* InteractionRecord: the chain type, the output of the chain and
\* datetime.now() at its creation, numbered by the call
InteractionRecord(chain_type, output_data, timestamp) ==
    [chain_type |-> chain_type, output_data |-> output_data, timestamp |-> timestamp]

\* what the two stores do with a record: each takes it, or raises or is not
\* configured
BackendOutcomes == StoreOutcomes \cup {[redis |-> "raises", chroma |-> "raises"]}

\* the memory component of a call: not importable, or importable with the
\* context retrieval working or raising
LifecycleMemory == {MemoryDisabled} \cup {Memory(TRUE, c, "stored") : c \in {"raises", "empty"}}

\* the LLM client is None, raises, or answers with one line of text
LifecycleLlm == {Llm("absent", <<>>), Llm("raises", <<>>), Llm("text", <<"Some other text">>)}

\* A call of a simplified chain: ChainCall with the number of the call and
\* whether the call created an InteractionRecord
LifecycleCall(chain, input, mem, llm, at) ==
    [chain |-> chain, input |-> input, mem |-> mem, llm |-> llm, result |-> Pending,
     at |-> at, created |-> FALSE]

LifecycleCalls(at) ==
    {LifecycleCall("plan", input, mem, llm, at) :
        input \in PlanInputs, mem \in LifecycleMemory, llm \in LifecycleLlm} \cup
    {LifecycleCall("quiz", input, mem, llm, at) :
        input \in {i \in QuizInputs : i.question_types = "list" /\ i.count \in {0, MaxCount}},
        mem \in LifecycleMemory, llm \in LifecycleLlm} \cup
    {LifecycleCall("explain", input, mem, llm, at) :
        input \in {i \in ExplainInputs : i.concept # "entropy"},
        mem \in LifecycleMemory, llm \in LifecycleLlm}

LifecycleInit ==
    /\ chain_call \in LifecycleCalls(1)
    /\ redis_cache = <<>>
    /\ chroma_store = {}
    /\ mem_call = NoMemCall
    /\ writers = NoWriters
    /\ WSIdle
    /\ AuthIdle
    /\ StudyIdle
    /\ PlansIdle

\* the chain calls store_user_interaction on every path, the except clause
\* included
stores_interaction_always(result, mem) == mem.available

\* if MEMORY_AVAILABLE: store_user_interaction(..) is the last statement of
\* the try block before the return; the except clause does not call it
stores_interaction(result, mem) == mem.available /\ result.kind = "result"

\* The chain returns; on the way MemoryManager.store_interaction creates the
\* record and hands it to the recency cache and to the similarity store
Complete(chain_type, result) ==
    LET created == stores_interaction(result, chain_call.mem)
        record == InteractionRecord(chain_type, result, chain_call.at)
    IN  /\ chain_call' = [chain_call EXCEPT !.result = result, !.created = created]
        /\ IF created
           THEN \E outcome \in BackendOutcomes :
                    /\ redis_cache' = IF outcome.redis = "ok"
                                      THEN <<record>> \o redis_cache ELSE redis_cache
                    /\ chroma_store' = IF outcome.chroma = "ok"
                                       THEN chroma_store \cup {record} ELSE chroma_store
           ELSE UNCHANGED <<redis_cache, chroma_store>>
        /\ UNCHANGED <<mem_call, writers>>

CompletePlanChain ==
    /\ chain_call.chain = "plan" /\ chain_call.result = Pending
    /\ Complete("plan", PlanChain(chain_call.input, chain_call.mem, chain_call.llm))

CompleteQuizChain ==
    /\ chain_call.chain = "quiz" /\ chain_call.result = Pending
    /\ Complete("quiz", QuizChain(chain_call.input, chain_call.mem, chain_call.llm))

CompleteExplainChain ==
    /\ chain_call.chain = "explain" /\ chain_call.result = Pending
    /\ Complete("explain", ExplainChain(chain_call.input, chain_call.mem, chain_call.llm))

\* the next request reaches a chain
NextCall ==
    /\ chain_call.result # Pending
    /\ chain_call.at < MaxCalls
    /\ chain_call' \in LifecycleCalls(chain_call.at + 1)
    /\ UNCHANGED memvars

LifecycleNext ==
    /\ \/ CompletePlanChain
       \/ CompleteQuizChain
       \/ CompleteExplainChain
       \/ NextCall
    /\ UNCHANGED <<wsvars, authvars, http, plansvars>>

SpecLifecycle == LifecycleInit /\ [][LifecycleNext]_vars

\* ------------------------------------- recency cache, all chain types
ChainTypes == <<"plan", "quiz", "explain">>

\* the elements of S, largest first
RECURSIVE Descending(_)
Descending(S) ==
    IF S = {} THEN <<>>
    ELSE LET top == CHOOSE r \in S : \A q \in S : q <= r
         IN  <<top>> \o Descending(S \ {top})

\* Where the record with a given timestamp is: in no list, in the list of a
\* chain type, or in the quiz list with its own key already expired
Placements == [1..MaxItems -> {"none", "plan", "quiz", "explain", "expired"}]

\* recent:{user_id}:{chain_type}, newest first
recent_list(placement, ct) ==
    Descending({r \in 1..MaxItems :
                   placement[r] = ct \/ (ct = "quiz" /\ placement[r] = "expired")})

\* LRANGE key start stop: both ends are included
lrange(list, start, stop) == SubSeq(list, start + 1, Min(stop + 1, Len(list)))

RECURSIVE concat(_)
concat(lists) == IF lists = <<>> THEN <<>> ELSE Head(lists) \o concat(Tail(lists))

get_recent_interactions_all_exclusive(placement, max_results, redis) ==
    IF redis = "raises" THEN [taken |-> [i \in 1..3 |-> 0], records |-> <<>>]
    ELSE LET record_ids == [i \in 1..3 |->
                               lrange(recent_list(placement, ChainTypes[i]), 0,
                                      (max_results \div 3) - 1)]
             found == SelectSeq(concat(record_ids), LAMBDA r : placement[r] # "expired")
             interactions == Descending({found[i] : i \in DOMAIN found})
         IN  [taken |-> [i \in 1..3 |-> Len(record_ids[i])],
              records |-> slice(interactions, max_results)]

\* RedisMemoryCache.get_recent_interactions without a chain type; taken is
\* the number of keys read from each of the three lists
get_recent_interactions_all(placement, max_results, redis) ==
    IF redis = "raises" THEN [taken |-> [i \in 1..3 |-> 0], records |-> <<>>]
    ELSE LET record_ids == [i \in 1..3 |->
                               lrange(recent_list(placement, ChainTypes[i]), 0,
                                      max_results \div 3)]
             found == SelectSeq(concat(record_ids), LAMBDA r : placement[r] # "expired")
             interactions == Descending({found[i] : i \in DOMAIN found})
         IN  [taken |-> [i \in 1..3 |-> Len(record_ids[i])],
              records |-> slice(interactions, max_results)]

RecentCalls ==
    {[op |-> "get_recent_interactions", placement |-> pl, max_results |-> n,
      redis |-> r, result |-> NotReturned] :
        pl \in Placements, n \in 0..(MaxItems + 1), r \in {"ok", "raises"}}

RecentInit ==
    /\ mem_call \in RecentCalls
    /\ redis_cache = <<>>
    /\ chroma_store = {}
    /\ writers = NoWriters
    /\ WSIdle
    /\ AuthIdle
    /\ StudyIdle
    /\ PlansIdle
    /\ ChainsIdle

CallGetRecentInteractions ==
    /\ mem_call.result = NotReturned
    /\ mem_call' = [mem_call EXCEPT !.result =
                       [kind |-> "returned"] @@
                       get_recent_interactions_all(mem_call.placement,
                                                   mem_call.max_results, mem_call.redis)]
    /\ UNCHANGED <<redis_cache, chroma_store, writers>>

RecentNext ==
    /\ CallGetRecentInteractions
    /\ UNCHANGED <<wsvars, authvars, http, plansvars, chain_call>>

SpecRecent == RecentInit /\ [][RecentNext]_vars

\* ------------------------------ recency cache, concurrent store_interaction
\* ltrim(recent_key, 0, 49) keeps the first 50 keys
RecentLimit == 50

\* the newest record key the cache or a writer has, 0 when there is none
newest_key ==
    LET keys == {redis_cache[i] : i \in DOMAIN redis_cache}
                    \cup {writers[w].key : w \in Writers} \cup {0}
    IN  CHOOSE r \in keys : \A q \in keys : q <= r

InFlight(w) == writers[w].pc # "idle"

\* the list as earlier calls left it: empty, one short of the limit, or full
RedisInit ==
    /\ redis_cache \in {Descending(1..n) : n \in {0, RecentLimit - 1, RecentLimit}}
    /\ writers = NoWriters
    /\ chroma_store = {}
    /\ mem_call = NoMemCall
    /\ WSIdle
    /\ AuthIdle
    /\ StudyIdle
    /\ PlansIdle
    /\ ChainsIdle

\* MemoryManager.store_interaction stamps the record with datetime.now() and
\* calls RedisMemoryCache.store_interaction, which builds record_id
Begin(w) ==
    /\ ~InFlight(w)
    /\ writers[w].calls < MaxInserts
    /\ writers' = [v \in Writers |->
                      IF v = w
                      THEN Writer("setex", newest_key + 1, "", writers[w].calls + 1,
                                  writers[w].overlapped \/ \E u \in Writers \ {w} : InFlight(u),
                                  writers[w].untrimmed)
                      ELSE [writers[v] EXCEPT !.overlapped = @ \/ InFlight(v)]]
    /\ UNCHANGED redis_cache

\* a Redis command raises: the except clause logs and re-raises
CommandRaises(w) ==
    /\ InFlight(w)
    /\ writers' = [writers EXCEPT ![w].pc = "idle", ![w].failed = writers[w].pc]
    /\ UNCHANGED redis_cache

\* setex(record_id, ttl, json)
Setex(w) ==
    /\ writers[w].pc = "setex"
    /\ writers' = [writers EXCEPT ![w].pc = "lpush"]
    /\ UNCHANGED redis_cache

\* lpush(recent_key, record_id)
Lpush(w) ==
    /\ writers[w].pc = "lpush"
    /\ redis_cache' = <<writers[w].key>> \o redis_cache
    /\ writers' = [writers EXCEPT ![w].pc = "ltrim", ![w].untrimmed = @ + 1]

Ltrim_late(w) ==
    /\ writers[w].pc = "ltrim"
    /\ redis_cache' = lrange(redis_cache, 0, RecentLimit)
    /\ writers' = [writers EXCEPT ![w].pc = "expire", ![w].untrimmed = 0]

\* ltrim(recent_key, 0, 49)
Ltrim(w) ==
    /\ writers[w].pc = "ltrim"
    /\ redis_cache' = lrange(redis_cache, 0, RecentLimit - 1)
    /\ writers' = [writers EXCEPT ![w].pc = "expire", ![w].untrimmed = 0]

\* expire(recent_key, ttl), then the call returns record_id
ExpireKey(w) ==
    /\ writers[w].pc = "expire"
    /\ writers' = [writers EXCEPT ![w].pc = "idle"]
    /\ UNCHANGED redis_cache

RedisNext ==
    /\ \E w \in Writers :
          \/ Begin(w)
          \/ CommandRaises(w)
          \/ Setex(w)
          \/ Lpush(w)
          \/ Ltrim(w)
          \/ ExpireKey(w)
    /\ UNCHANGED <<wsvars, authvars, http, plansvars, chain_call, chroma_store, mem_call>>

SpecRedis == RedisInit /\ [][RedisNext]_vars

\* ================================================================ claims
GenStates == {"g_ctx", "g_prompt", "g_llm", "g_stream", "g_question"}

\* the frames delivered for the message being handled (the server's own
\* keep-alive pings belong to no request)
RequestFrames(c) == SelectSeq(sent[c], LAMBDA f : f.type # "ping")

IsTerminal(f) == f.type \in {"quiz_complete", "error"}

\* a status frame first, then status and content_update frames only
ProgressFrames(log, n) ==
    /\ n >= 1
    /\ log[1].type = "status"
    /\ \A i \in 1..n : log[i].type \in {"status", "content_update"}

\* once content_update frames have started, the only status frames are the
\* question_completed ones, each right after a content_update whose piece has "?"
LateStatusIsQuestionCompleted(log, n) ==
    \A i \in 2..n :
        (log[i].type = "status" /\ \E j \in 1..(i-1) : log[j].type = "content_update")
            => /\ log[i].status = "question_completed"
               /\ log[i-1].type = "content_update"
               /\ log[i-1].content_piece = "?"

\* the request of connection c was handled to its end with the client there
HandledQuiz(c) ==
    /\ seq[c] > 0
    /\ WellFormedQuiz(cur[c])
    /\ pc[c] = "recv"
    /\ sock[c] = "open"

\* C1 (as amended): the first frame of a connection is "connected"; for a
\* well-formed quiz_request handled while the client stays connected the
\* server sends a status frame first, then status and content_update frames
\* (after the first content_update only question_completed statuses, each right
\* after a content_update containing "?"), then exactly one terminal frame
\* quiz_complete or error, and nothing for that request after it.
C1_FrameOrderAmended ==
    \A c \in Clients :
        /\ first_frame[c] \in {None, "connected"}
        /\ HandledQuiz(c) =>
              LET log == RequestFrames(c)
                  n == Len(log)
              IN /\ n >= 2
                 /\ ProgressFrames(log, n - 1)
                 /\ LateStatusIsQuestionCompleted(log, n - 1)
                 /\ IsTerminal(log[n])
                 /\ \A i \in 1..n : log[i].request_id = generation_request_id(cur[c])
        /\ (WellFormedQuiz(cur[c]) /\ pc[c] \in GenStates /\ sock[c] = "open") =>
              LET log == RequestFrames(c)
              IN /\ ProgressFrames(log, Len(log))
                 /\ LateStatusIsQuestionCompleted(log, Len(log))

\* C1 witness: a generation that streamed a piece containing "?" ran to
\* quiz_complete on an open connection
C1_Witness ==
    /\ HandledQuiz("c1")
    /\ sent["c1"][Len(sent["c1"])].type = "quiz_complete"
    /\ \E i \in 1..Len(sent["c1"]) : sent["c1"][i].status = "question_completed"

\* C1 as stated: all status frames come before all content_update frames
C1_FrameOrderOriginal ==
    \A c \in Clients :
        /\ first_frame[c] \in {None, "connected"}
        /\ HandledQuiz(c) =>
              LET log == RequestFrames(c)
                  n == Len(log)
              IN /\ n >= 2
                 /\ log[1].type = "status"
                 /\ IsTerminal(log[n])
                 /\ \A i \in 1..(n-1) : log[i].type \in {"status", "content_update"}
                 /\ \A i, j \in 1..(n-1) :
                       (i < j /\ log[i].type = "content_update") => log[j].type # "status"

\* C2: a message {type: "ping", request_id: X} is answered with exactly one
\* pong frame carrying X and with no other frame.
C2_PingPong ==
    \A c \in Clients :
        (seq[c] > 0 /\ cur[c].json_ok /\ cur[c].type = "ping"
            /\ pc[c] = "recv" /\ sock[c] = "open")
        => RequestFrames(c) = << Frame("pong", cur[c].request_id, "", "", <<>>) >>

\* the messages the server rejects
Rejected(m) ==
    \/ ~WebSocketMessage_valid(m)
    \/ m.type = "quiz_request" /\ ~QuizInput_valid(m)
    \/ m.type \notin {"quiz_request", "ping"}

\* C3: reading an unparseable, invalid or unknown-type message takes the
\* connection back to the receive loop with its client id still registered,
\* and, the client being there, delivers exactly one error frame, which
\* carries the request_id of the message when the envelope could be parsed.
C3_RejectedStep ==
    \A c \in Clients :
        (seq'[c] = seq[c] + 1 /\ Rejected(cur'[c])) =>
            /\ pc'[c] = "recv"
            /\ c \in active_connections'
            /\ inbox'[c] = Tail(inbox[c])
            /\ sock[c] = "open" =>
                  sent'[c] = << ErrorFrame(IF WebSocketMessage_valid(cur'[c])
                                           THEN cur'[c].request_id ELSE None) >>

C3_ErrorKeepsOpen == [][C3_RejectedStep]_vars

\* C3 witness: the second message of a connection was rejected with one
\* error frame and the connection is back in its receive loop
C3_Witness ==
    /\ seq["c1"] = 2
    /\ Rejected(cur["c1"])
    /\ pc["c1"] = "recv"
    /\ "c1" \in active_connections
    /\ sent["c1"] = << ErrorFrame("r1") >>

\* C4: an inbound message is read only when the handler of the previous one
\* has returned: no generation is in flight, and the frames of a well-formed
\* quiz_request (the client being there) are complete up to the terminal one.
C4_ReadStep ==
    \A c \in Clients :
        seq'[c] # seq[c] =>
            /\ pc[c] = "recv"
            /\ accumulated_content[c] = <<>>
            /\ (WellFormedQuiz(cur[c]) /\ sock[c] = "open" /\ seq[c] > 0) =>
                  IsTerminal(RequestFrames(c)[Len(RequestFrames(c))])

C4_OneAtATime == [][C4_ReadStep]_vars

\* C4 witness: a second message waits in the transport buffer while the
\* generation for the first is streaming
C4_Witness ==
    /\ pc["c1"] = "g_stream"
    /\ accumulated_content["c1"] # <<>>
    /\ inbox["c1"] # <<>>

\* C5: the table holds exactly the client ids of the connections that were
\* accepted and have not closed; the receive that meets the disconnect closes
\* the connection; a closed connection stays closed, out of the table, and
\* nothing more is sent to it or read from it.
C5_TableInv ==
    active_connections = {c \in Clients : pc[c] \notin {"new", "closed"}}

C5_ClosedStep ==
    \A c \in Clients :
        /\ pc[c] = "closed" =>
              /\ pc'[c] = "closed"
              /\ sent'[c] = sent[c]
              /\ inbox'[c] = inbox[c]
              /\ seq'[c] = seq[c]
              /\ c \notin active_connections'
        /\ (pc[c] = "recv" /\ inbox[c] = <<>> /\ sock[c] = "gone" /\ pc'[c] # pc[c]) =>
              pc'[c] = "closed"
        /\ (pc'[c] = "closed") => c \notin active_connections'

C5_Closed == []C5_TableInv /\ [][C5_ClosedStep]_vars

\* C5 witness: one client disconnected and its connection is closed while
\* the other connection is still registered
C5_Witness ==
    /\ pc["c1"] = "closed"
    /\ sock["c1"] = "gone"
    /\ first_frame["c1"] = "connected"
    /\ active_connections = {"c2"}

\* a call that ran the token verification
VerifiedCall == auth_call.op \in {"get_current_user", "authenticate"}

\* a token signed with the configured secret whose sub is a UUID, with an
\* exp claim and well-typed optional claims
SignedUuidToken(tok) ==
    /\ jwt_secret = "configured"
    /\ tok.form = "jwt"
    /\ tok.signed = "secret"
    /\ UUID(tok.sub) \in Uuids
    /\ tok.exp # NoExp
    /\ tok.claims = "ok"

\* C7: for a token signed with the configured secret with sub=<uuid>,
\* get_current_user returns the User whose id is that UUID when exp is in the
\* future, and fails with 401 and no User when exp is in the past.
C7_TokenRoundTrip ==
    (VerifiedCall /\ SignedUuidToken(auth_call.token)) =>
        /\ auth_call.token.exp > auth_call.at =>
              auth_result = User(UUID(auth_call.token.sub))
        /\ auth_call.token.exp < auth_call.at =>
              /\ auth_result.kind = "HTTPException"
              /\ auth_result.status = 401
              /\ auth_result.id = NoId

\* C7 witness: an unexpired token whose sub is written in upper case was
\* resolved to the user
C7_Witness ==
    /\ auth_call.op = "get_current_user"
    /\ SignedUuidToken(auth_call.token)
    /\ auth_call.token.sub = "A1"
    /\ auth_call.token.exp > auth_call.at
    /\ auth_result.kind = "User"
    /\ auth_result.id = UUID("a1")

\* C8: with SUPABASE_JWT_SECRET absent, verification fails with a 500-class
\* configuration error for every token presented.
C8_MissingSecretIs500 ==
    (VerifiedCall /\ auth_call.token.form \in {"jwt", "garbage"} /\ jwt_secret = "absent") =>
        /\ auth_result.kind = "HTTPException"
        /\ auth_result.status = 500

\* C9: every authentication failure on a protected route is a 401 carrying
\* WWW-Authenticate: Bearer.
C9_AuthFailuresAre401 ==
    (auth_call.op = "authenticate" /\ auth_result.kind = "HTTPException") =>
        /\ auth_result.status = 401
        /\ auth_result.www_authenticate = "Bearer"

\* C10: validate_user_access(A, B) raises 403 whenever A differs from B and
\* returns normally when they are equal.
C10_CrossUserDenied ==
    auth_call.op = "validate_user_access" =>
        IF auth_call.user_id # auth_call.resource_user_id
        THEN auth_result.kind = "HTTPException" /\ auth_result.status = 403
        ELSE auth_result.kind = "None"

\* C10 witness: a user asked for another user's resource and was refused
C10_Witness ==
    /\ auth_call.op = "validate_user_access"
    /\ auth_call.user_id = UUID("a1")
    /\ auth_call.resource_user_id = UUID("b2")
    /\ auth_result.status = 403

\* the identity the token of the exchange authenticates
AuthenticatedId(x) == authenticate(x.authorization, jwt_secret, now).id

\* the handler of the exchange ran: the chain was called
ChainCalled(x) == x.phase # "idle" /\ x.status \in {200, 500}

UserIdsAreAuthenticated(x) ==
    /\ ChainCalled(x) => x.chain_user_id = AuthenticatedId(x)
    /\ x.status = 200 =>
          /\ x.response_user_id = str(AuthenticatedId(x))
          /\ x.task_user_id = AuthenticatedId(x)
          /\ x.task_input_user_id = AuthenticatedId(x)
    /\ x.phase = "task saved" => x.row_user_id = str(AuthenticatedId(x))

\* two exchanges that differ at most in the user_id of the body
SameButBodyUserId(x, y) ==
    /\ x.phase # "idle" /\ y.phase # "idle"
    /\ x.route = y.route
    /\ x.authorization = y.authorization
    /\ x.chain = y.chain

SameUserIds(x, y) ==
    /\ x.status = y.status
    /\ x.chain_user_id = y.chain_user_id
    /\ x.response_user_id = y.response_user_id
    /\ x.task_user_id = y.task_user_id
    /\ x.task_input_user_id = y.task_input_user_id
    /\ (x.phase = "task saved" /\ y.phase = "task saved") => x.row_user_id = y.row_user_id

\* C6 (as amended): the user_id given to the chain, echoed in the response
\* and handed to the background task is the authenticated user's id, and two
\* requests of the same user that differ only in a well-formed body user_id
\* get the same chain input, response and persisted user_id.
C6_UserIdOverwritten ==
    \A s, r \in Slots :
        /\ UserIdsAreAuthenticated(http[s])
        /\ (SameButBodyUserId(http[s], http[r])
              /\ body_valid(http[s].body_user_id) /\ body_valid(http[r].body_user_id))
           => SameUserIds(http[s], http[r])

\* C6 witness: user a1 sent user b2's id in the body, and the row was saved
\* under a1
C6_Witness ==
    /\ http["p"].phase = "task saved"
    /\ AuthenticatedId(http["p"]) = UUID("a1")
    /\ http["p"].body_user_id = "b2"
    /\ http["p"].row_user_id = "a1"
    /\ http["q"].status = 200
    /\ http["q"].body_user_id = "a1"
    /\ SameButBodyUserId(http["p"], http["q"])

\* C6 as stated: whatever user_id the body carried
C6_WhateverBodyUserId ==
    \A s, r \in Slots :
        /\ UserIdsAreAuthenticated(http[s])
        /\ SameButBodyUserId(http[s], http[r]) => SameUserIds(http[s], http[r])

\* ---------------------------------------------------------------- C11
\* C11: a GET /plans answered to authenticated user A carries only rows whose
\* user_id is A's id, whatever the table holds; and a POST /plans by A that
\* the datastore executes succeeds and stores a row whose user_id is the text
\* of A's id (so that A's later GET /plans selects it).
C11_PlansOwnership ==
    /\ (plans_call.op = "GET" /\ plans_call.status = 200) =>
            \A r \in plans_call.rows : UUID(r.user_id) = plans_call.user
    /\ \A r \in study_plans : r.created_by # NoId => r.user_id = str(r.created_by)
    /\ (plans_call.op = "POST" /\ supabase = "configured" /\ plans_call.db = "ok") =>
            /\ plans_call.status = 200
            /\ \E r \in study_plans :
                    r.created_by = plans_call.user /\ r.user_id = str(plans_call.user)

\* ---------------------------------------------------------------- C12
\* C12: with no datastore client configured, POST /plans and GET /plans
\* answer 503 with detail "Database not configured".
C12_Unconfigured503 ==
    (supabase = "absent" /\ plans_call.op \in {"POST", "GET"}) =>
        /\ plans_call.status = 503
        /\ plans_call.detail = "Database not configured"

\* ------------------------------------------------------- chains: helpers
Returned(chain) == chain_call.chain = chain /\ chain_call.result # Pending

\* the LLM was called and returned text
GotText == chain_call.llm.outcome = "text" /\ chain_call.result.llm_called

IsJsonArray(text) == startswith(text, "[") /\ json_loads(text).kind = "list"

IsJsonObject(text) == startswith(text, "{") /\ json_loads(text).kind = "dict"

\* the lines of a text that hold a question stem, stripped
QuestionStems(text) ==
    LET stems == SelectSeq(text, LAMBDA l : has_qmark(l) \/ has_Question(l))
    IN  [i \in 1..Len(stems) |-> strip(stems[i])]

Contains(fragments, word) == \E i \in DOMAIN fragments : fragments[i] = word

\* an exception is raised at some step of the simplified chain's generation
GenerationRaises ==
    \/ ~chain_call.input.has_input
    \/ chain_call.llm.outcome \in {"absent", "raises"}
    \/ chain_call.chain = "quiz" /\ chain_call.input.question_types = "null"

\* ---------------------------------------------------------------- C13
\* C13 as stated: with question_count = N and a response that is a
\* well-formed JSON array of at least N items QuizChain returns exactly N
\* questions, and for every response it returns at most N.
C13_QuestionCountOriginal ==
    (Returned("quiz") /\ GotText) =>
        LET N == chain_call.input.count
            text == chain_call.llm.text
            questions == chain_call.result.questions
        IN  /\ (IsJsonArray(text) /\ Len(json_loads(text).items) >= N) =>
                    Len(questions) = N
            /\ Len(questions) <= N

\* C13 (amended): for question_count = N >= 0 and a response that is a
\* well-formed JSON array of at least N items, QuizChain returns exactly the
\* first N items of the array; for every response and N >= 0 it returns at
\* most N questions.
C13_QuestionCount ==
    (Returned("quiz") /\ GotText /\ chain_call.input.count >= 0) =>
        LET N == chain_call.input.count
            text == chain_call.llm.text
            questions == chain_call.result.questions
        IN  /\ (IsJsonArray(text) /\ Len(json_loads(text).items) >= N) =>
                    /\ Len(questions) = N
                    /\ \A i \in 1..N : questions[i] = json_loads(text).items[i]
            /\ Len(questions) <= N

C13_Witness ==
    /\ Returned("quiz") /\ GotText
    /\ chain_call.input.count = MaxCount
    /\ IsJsonArray(chain_call.llm.text)
    /\ Len(json_loads(chain_call.llm.text).items) > MaxCount
    /\ Len(chain_call.result.questions) = MaxCount

C15_TextParse ==
    (Returned("quiz") /\ GotText /\ chain_call.input.count >= 0
        /\ json_loads(chain_call.llm.text).kind = "JSONDecodeError") =>
        LET stems == QuestionStems(chain_call.llm.text)
            n == Min(Len(stems), chain_call.input.count)
            questions == chain_call.result.questions
        IN  /\ Len(questions) = n
            /\ \A i \in 1..n :
                    questions[i] = Question(i, stems[i], "short_answer", "See explanation")

\* ---------------------------------------------------------------- C16
\* C16 as stated: a response that starts with { gives a description different
\* from the raw text; a response that does not gives description = the raw
\* text and sections = [].
C16_PlanBranchOriginal ==
    (Returned("plan") /\ GotText) =>
        LET text == chain_call.llm.text
        IN  IF startswith(text, "{")
            THEN chain_call.result.description # text
            ELSE chain_call.result.description = text /\ chain_call.result.sections = <<>>

\* C16 (amended): a response whose stripped text starts with { and is
\* well-formed JSON gives the parsed object (its description is the JSON's,
\* not the raw text); every other response, one that starts with { and is not
\* well-formed JSON included, gives description = the raw text and
\* sections = [].
C16_PlanBranch ==
    (Returned("plan") /\ GotText) =>
        LET text == chain_call.llm.text
        IN  IF IsJsonObject(text)
            THEN /\ chain_call.result.description # text
                 /\ chain_call.result.fields = json_loads(text).keys \cup {"metadata"}
            ELSE chain_call.result.description = text /\ chain_call.result.sections = <<>>

C16_Witness ==
    /\ Returned("plan") /\ GotText
    /\ startswith(chain_call.llm.text, "{")
    /\ ~IsJsonObject(chain_call.llm.text)
    /\ chain_call.result.description = chain_call.llm.text

\* ---------------------------------------------------------------- C17
\* C17 as stated: when the LLM call raises, the Explain Chain (simplified and
\* templated) returns a result whose explanation contains the concept and the
\* word "Unable" and whose four lists are empty.
C17_ExplainFallbackOriginal ==
    ((Returned("explain") \/ Returned("templated explain"))
        /\ chain_call.input.has_input /\ chain_call.llm.outcome = "raises") =>
        /\ chain_call.result.kind = "fallback"
        /\ Contains(chain_call.result.explanation, chain_call.input.concept)
        /\ Contains(chain_call.result.explanation, "Unable")
        /\ chain_call.result.lists = <<>>

\* C17 (amended): when the LLM call raises, both Explain Chains return a
\* result whose explanation contains the concept and whose four lists are
\* empty; the simplified chain's explanation contains the word "Unable", the
\* templated chain's the lower-case "unable".
C17_ExplainFallback ==
    ((Returned("explain") \/ Returned("templated explain"))
        /\ chain_call.input.has_input /\ chain_call.llm.outcome = "raises") =>
        /\ chain_call.result.kind = "fallback"
        /\ Contains(chain_call.result.explanation, chain_call.input.concept)
        /\ Contains(chain_call.result.explanation,
                    IF chain_call.chain = "explain" THEN "Unable" ELSE "unable")
        /\ ~(chain_call.chain = "templated explain"
                /\ Contains(chain_call.result.explanation, "Unable"))
        /\ chain_call.result.lists = <<>>

C17_Witness ==
    /\ Returned("explain")
    /\ chain_call.input.has_input /\ chain_call.llm.outcome = "raises"
    /\ chain_call.result.kind = "fallback"
    /\ Contains(chain_call.result.explanation, "Unable")

\* ---------------------------------------------------------------- C18
\* C18: whatever the input mapping and whichever step raises, a simplified
\* chain returns its fallback payload embedding the error message and never
\* raises to its caller.
C18_NeverRaises ==
    (chain_call.chain \in {"plan", "quiz", "explain"} /\ chain_call.result # Pending) =>
        /\ chain_call.result.kind # "raised"
        /\ GenerationRaises =>
                /\ chain_call.result.kind = "fallback"
                /\ chain_call.result.error # NoError

\* ---------------------------------------------------------------- C19
\* C19: when context retrieval raises or storing the interaction raises, the
\* simplified chain returns what it returns with memory disabled: the LLM is
\* called all the same, the payload is the same (context_items, the size of
\* the context in the prompt, is no part of the payload) and nothing
\* propagates from the memory component.
C19_MemoryBestEffort ==
    (chain_call.chain \in {"plan", "quiz", "explain"} /\ chain_call.result # Pending
        /\ chain_call.mem.available
        /\ (chain_call.mem.context = "raises" \/ chain_call.mem.store = "raises")) =>
        /\ [chain_call.result EXCEPT !.context_items = 0] =
                (IF chain_call.chain = "plan"
                 THEN PlanChain(chain_call.input, MemoryDisabled, chain_call.llm)
                 ELSE IF chain_call.chain = "quiz"
                 THEN QuizChain(chain_call.input, MemoryDisabled, chain_call.llm)
                 ELSE ExplainChain(chain_call.input, MemoryDisabled, chain_call.llm))
        /\ (chain_call.input.has_input /\ ~GenerationRaises) =>
                /\ chain_call.result.kind = "result"
                /\ chain_call.result.llm_called
                /\ chain_call.result.error = NoError

C19_Witness ==
    /\ Returned("plan")
    /\ chain_call.mem = Memory(TRUE, "raises", "raises")
    /\ chain_call.llm.outcome = "text"
    /\ chain_call.result.kind = "result"
    /\ chain_call.result.llm_called

\* ---------------------------------------------------------------- C20
\* C20: a get_context_for_chain(max_context_items = 3) call made with 2 items
\* in the recency cache and at least 3 more matching items in the similarity
\* store returns exactly 3 items, the recency-cache items first, none twice;
\* and no call returns more than max_context_items items.
C20_ContextOrdering ==
    LET cached == {redis_cache[i] : i \in DOMAIN redis_cache}
        result == mem_call.result
    IN  (mem_call.redis = "ok" /\ mem_call.chroma = "ok") =>
            /\ Len(result) <= mem_call.max_context_items
            /\ (mem_call.max_context_items = 3 /\ Len(redis_cache) = 2
                    /\ Cardinality(chroma_store \ cached) >= 3) =>
                    /\ Len(result) = 3
                    /\ result[1] = context_item(redis_cache[1])
                    /\ result[2] = context_item(redis_cache[2])
                    /\ \A i, j \in 1..3 : i # j => result[i] # result[j]

\* ---------------------------------------------------------------- C23
\* the statuses of the request's status frames, question_completed left out
Statuses(c) ==
    LET early == SelectSeq(RequestFrames(c),
                           LAMBDA f : f.type = "status" /\ f.status # "question_completed")
    IN  [i \in 1..Len(early) |-> early[i].status]

HasStatus(c, status) == \E i \in DOMAIN Statuses(c) : Statuses(c)[i] = status

\* initializing, then context_loaded or context_warning, then prompt_ready,
\* then generating
StatusOrder(c) ==
    LET s == Statuses(c)
    IN  /\ Len(s) <= 4
        /\ Len(s) >= 1 => s[1] = "initializing"
        /\ Len(s) >= 2 => s[2] \in {"context_loaded", "context_warning"}
        /\ Len(s) >= 3 => s[3] = "prompt_ready"
        /\ Len(s) >= 4 => s[4] = "generating"

\* the connection's current request is a quiz generation whose frames have
\* all been delivered
GenerationOf(c) == seq[c] > 0 /\ WellFormedQuiz(cur[c]) /\ sock[c] = "open"

\* C23 as stated: the status frames come in the order initializing, context_loaded
\* or context_warning, prompt_ready, generating, and a generation that has
\* reached the LLM call (the step after prompt_ready) has sent generating.
C23_StatusOrderOriginal ==
    \A c \in Clients :
        GenerationOf(c) =>
            /\ StatusOrder(c)
            /\ (pc[c] \in {"g_stream", "g_question", "recv"} /\ HasStatus(c, "prompt_ready"))
                   => HasStatus(c, "generating")

\* C23 (as amended): the status frames come in the order initializing,
\* context_loaded or context_warning, prompt_ready, generating; generating has
\* not been sent when the LLM client is about to be invoked, it has been sent
\* by every generation that reads the response stream, and a generation that
\* has sent generating went through the LLM call.
C23_StatusOrder ==
    \A c \in Clients :
        GenerationOf(c) =>
            /\ StatusOrder(c)
            /\ pc[c] \in {"g_ctx", "g_prompt", "g_llm"} => ~HasStatus(c, "generating")
            /\ pc[c] \in {"g_stream", "g_question"} => HasStatus(c, "generating")
            /\ \A i \in DOMAIN sent[c] :
                   sent[c][i].type = "content_update" =>
                       \E j \in 1..(i-1) : sent[c][j].status = "generating"

\* C23 witness: a generation is reading the stream, its four status frames
\* delivered in order
C23_Witness ==
    /\ GenerationOf("c1")
    /\ pc["c1"] = "g_stream"
    /\ Len(Statuses("c1")) = 4
    /\ Statuses("c1")[4] = "generating"

\* ---------------------------------------------------------------- C24
ContentUpdates(c) == SelectSeq(sent[c], LAMBDA f : f.type = "content_update")

\* the pieces of the first n content_update frames, in order
PiecesUpTo(c, n) == [i \in 1..n |-> ContentUpdates(c)[i].content_piece]

\* C24: each content_update frame's accumulated_content is the in-order
\* concatenation of the content_piece of the content_update frames sent so
\* far for the request, and the text parsed into the final question list is
\* the accumulated_content of the last content_update frame.
C24_Accumulation ==
    \A c \in Clients :
        GenerationOf(c) =>
            LET updates == ContentUpdates(c)
                n == Len(updates)
            IN  /\ \A i \in 1..n : updates[i].accumulated_content = PiecesUpTo(c, i)
                /\ \A k \in DOMAIN sent[c] :
                       (sent[c][k].type = "quiz_complete" /\ n >= 1) =>
                           sent[c][k].accumulated_content = updates[n].accumulated_content
                /\ (pc[c] \in {"g_stream", "g_question"} /\ n >= 1) =>
                       accumulated_content[c] = updates[n].accumulated_content

\* C24 witness: a generation that streamed two pieces has sent its final result
C24_Witness ==
    /\ GenerationOf("c1")
    /\ Len(ContentUpdates("c1")) = 2
    /\ sent["c1"][Len(sent["c1"])].type = "quiz_complete"
    /\ sent["c1"][Len(sent["c1"])].accumulated_content
           = <<ContentUpdates("c1")[1].content_piece, ContentUpdates("c1")[2].content_piece>>

\* ---------------------------------------------------------------- C25
\* C25: when the client disconnects while a streamed quiz generation is in
\* flight, no quiz result of that request is stored through the memory
\* component after the disconnect.
C25_DiscardedOnDisconnect ==
    \A r \in memory : r.live

\* ---------------------------------------------------------------- C30
\* a step that sends a keep-alive ping frame on connection c
C30_TimeoutStep(c) ==
    Len(SelectSeq(sent'[c], IsPing)) > Len(SelectSeq(sent[c], IsPing))

\* C30: when an OPEN connection gets no inbound message within the receive
\* timeout the server sends one ping frame, the client id stays registered and
\* the endpoint goes back to waiting for the next inbound message.
C30_TimeoutKeepsOpen ==
    [][\A c \in Clients :
          C30_TimeoutStep(c) =>
              /\ pc[c] = "recv"
              /\ inbox[c] = <<>>
              /\ sent'[c] = Append(sent[c], Frame("ping", None, "", "", <<>>))
              /\ pc'[c] = "recv"
              /\ c \in active_connections
              /\ active_connections' = active_connections]_vars

\* C30 witness: a keep-alive ping was sent and the connection is registered and
\* waiting for the next inbound message
C30_Witness ==
    /\ \E i \in DOMAIN sent["c1"] : IsPing(sent["c1"][i])
    /\ pc["c1"] = "recv"
    /\ "c1" \in active_connections
    /\ sock["c1"] = "open"

\* ---------------------------------------------------------------- C21
\* the responses that were returned before their background task ran
TaskPhases == {"task saved", "task no record", "task raises"}

\* C21: the background task of a /study route runs after the response has
\* been returned; whatever the persistence service does, an exception
\* included, the task returns to the scheduler and the response is as it was.
C21_BackgroundIsolation ==
    [][\A s \in Slots :
          (http[s].phase = "scheduled" /\ http'[s].phase # "scheduled") =>
              /\ http[s].status = 200
              /\ http'[s].phase \in TaskPhases
              /\ http'[s].scheduler = "returned"
              /\ http'[s].status = http[s].status
              /\ http'[s].response_user_id = http[s].response_user_id]_vars

\* C21 witness: the persistence service raised inside the task of a request
\* that had been answered with 200
C21_Witness ==
    /\ http["p"].phase = "task raises"
    /\ http["p"].status = 200
    /\ http["p"].scheduler = "returned"

\* ---------------------------------------------------------------- C22
DurationReturned ==
    chain_call.chain = "_calculate_study_duration" /\ chain_call.result.kind = "returned"

\* C22: _calculate_study_duration returns an integer from 1 to 16 for every
\* well-formed exam_date, past or far in the future, and exactly 8 when
\* exam_date is absent or malformed.
C22_DurationCap ==
    DurationReturned =>
        IF chain_call.exam_date.form = "date"
        THEN chain_call.result.weeks \in 1..16
        ELSE chain_call.result.weeks = 8

\* C22 witness: an exam more than 16 weeks away gave 16
C22_Witness ==
    /\ DurationReturned
    /\ chain_call.exam_date.form = "date"
    /\ chain_call.exam_date.day > 7 * 17
    /\ chain_call.result.weeks = 16

\* ---------------------------------------------------------------- C29
\* C29: when the LLM response cannot be parsed as JSON the templated
\* PlanChain returns the parser's fallback plan (title, error, the raw
\* response text, duration_weeks 4, empty daily_schedule and
\* learning_objectives) with a generation_metadata block of prompt_version
\* "1.0" attached.
C29_ParseFailurePlan ==
    (/\ chain_call.chain = "templated plan"
     /\ chain_call.result.kind = "plan"
     /\ chain_call.input.has_input
     /\ chain_call.llm.outcome = "text"
     /\ chain_call.llm.text.body = "not json") =>
        /\ {"title", "error", "raw_response", "duration_weeks", "daily_schedule",
            "learning_objectives", "generation_metadata"} \subseteq chain_call.result.fields
        /\ chain_call.result.raw_response.body = "not json"
        /\ chain_call.result.duration_weeks = 4
        /\ chain_call.result.prompt_version = "1.0"

\* ---------------------------------------------------------------- C28
RecentReturned ==
    /\ mem_call.result.kind = "returned"
    /\ mem_call.redis = "ok"

IsNewestFirst(records) ==
    \A i, j \in DOMAIN records : i < j => records[i] > records[j]

\* C28 as stated: get_recent_interactions without a chain type takes at most
\* max_results \div 3 records from each of plan, quiz and explain, and returns
\* at most max_results records, newest first.
C28_ProportionalOriginal ==
    RecentReturned =>
        /\ \A i \in 1..3 : mem_call.result.taken[i] <= mem_call.max_results \div 3
        /\ Len(mem_call.result.records) <= mem_call.max_results
        /\ IsNewestFirst(mem_call.result.records)

\* C28 (as amended): it takes the first max_results \div 3 + 1 keys of each
\* of the three lists, or the whole list when it is shorter, and returns at
\* most max_results records, newest first.
C28_Proportional ==
    RecentReturned =>
        /\ \A i \in 1..3 :
               mem_call.result.taken[i] =
                   Min(Len(recent_list(mem_call.placement, ChainTypes[i])),
                       (mem_call.max_results \div 3) + 1)
        /\ Len(mem_call.result.records) <= mem_call.max_results
        /\ IsNewestFirst(mem_call.result.records)

\* C28 witness: with max_results = 3 and a quiz list of at least two live
\* records, two quiz records are returned
C28_Witness ==
    /\ RecentReturned
    /\ mem_call.max_results = 3
    /\ mem_call.result.taken[2] = 2
    /\ Len(mem_call.result.records) >= 2
    /\ \A r \in 1..MaxItems : mem_call.placement[r] \in {"quiz", "none"}

\* ---------------------------------------------------------------- C27
\* no store_interaction call is in progress
Quiet == \A w \in Writers : ~InFlight(w)

\* no call ever ran while another writer's call was in progress
Sequential == \A w \in Writers : ~writers[w].overlapped

\* the pushes that no trim of the pushing writer has followed yet
RECURSIVE Untrimmed(_)
Untrimmed(W) ==
    IF W = {} THEN 0
    ELSE LET w == CHOOSE v \in W : TRUE
         IN  writers[w].untrimmed + Untrimmed(W \ {w})

\* the writer whose call was the last to start has returned from it
LastReturned(w) ==
    /\ writers[w].calls > 0
    /\ ~InFlight(w)
    /\ writers[w].failed = ""
    /\ \A v \in Writers : writers[v].key <= writers[w].key

Kept == {redis_cache[i] : i \in DOMAIN redis_cache} \cup chroma_store

\* the records the stores hold for the call that has just returned
RecordsOfCall == {r \in Kept : r.timestamp = chain_call.at}

Completed == chain_call.result # Pending

\* C26 as stated: every simplified chain call that completes while the
\* memory component is available, on the success path or on the fallback
\* path, has created an InteractionRecord.
C26_RecordOnEveryCompletion ==
    (Completed /\ chain_call.mem.available) => chain_call.created

\* no step changes or replaces a record a store already holds: the recency
\* list only grows at its head and the similarity store only grows
C26_KeptStep ==
    /\ \/ redis_cache' = redis_cache
       \/ /\ Len(redis_cache') = Len(redis_cache) + 1
          /\ SubSeq(redis_cache', 2, Len(redis_cache')) = redis_cache
    /\ chroma_store \subseteq chroma_store'
    /\ \A r \in Kept' \ Kept : r.timestamp = chain_call.at /\ ~Completed

\* C26: a simplified chain call that completes while the memory component is
\* available has created an InteractionRecord exactly when it returned from
\* the success path; the record holds the chain type and the output the call
\* returned and is in zero, one or two stores; a call that ended in the
\* fallback path, or ran without the memory component, left no record; and
\* no later step changes a record a store holds.
C26_RecordLifecycle ==
    /\ [](Completed =>
            /\ chain_call.created <=>
                   (chain_call.mem.available /\ chain_call.result.kind = "result")
            /\ ~chain_call.created => RecordsOfCall = {}
            /\ RecordsOfCall \subseteq
                   {InteractionRecord(chain_call.chain, chain_call.result, chain_call.at)})
    /\ [][C26_KeptStep]_vars

\* C26 witness: a second call has ended in the fallback path with the memory
\* component available and left no record, while both stores still hold the
\* record of the first call
C26_Witness ==
    /\ Completed
    /\ chain_call.at = 2
    /\ chain_call.mem.available
    /\ chain_call.result.kind = "fallback"
    /\ RecordsOfCall = {}
    /\ Len(redis_cache) = 1
    /\ chroma_store = {redis_cache[1]}

====
